---- MODULE Spec2Model ----
(***************************************************************************)
(* Model of the openai-cost-optimal-gateway request path:                  *)
(*   internal/gateway/gateway.go  Gateway.New, Proxy, forwardRequest,      *)
(*                                selectProviders                          *)
(*   internal/gateway/usage.go    prepareUsageRecord, saveUsageRecord      *)
(*   github.com/expr-lang/expr    the rule expression evaluator            *)
(*                                                                         *)
(* One behaviour of Spec is the handling of one incoming request by        *)
(* Gateway.Proxy against one gateway configuration; the handler is cut at  *)
(* its blocking calls (httpClient.Do, the copy of the upstream body) and   *)
(* at the head of its candidate loop.  SpecSelect applies selectProviders  *)
(* to routes and evaluation environments drawn from bounded sets.          *)
(***************************************************************************)
EXTENDS Integers, Sequences, FiniteSets, TLC

\* ------------------------------------------------------------------------
\* Bounds of the model
\* ------------------------------------------------------------------------

\* Longest default candidate list of a configured model.
MaxCandidates == 2

\* Longest rule list of a route handed to selectProviders in SpecSelect.
MaxRules == 2

\* The longest path, in characters, of a base URL and of a request.
MaxPathLen == 3

\* The last instant of the clock of one timed attempt, and the most chunks
\* of an upstream body.
MaxInstant == 4
MaxChunks == 2

\* The longest token, in characters, handed to maskToken.
MaxTokenLen == 9

\* The most messages of a request body, and the most items of one message's
\* content array.
MaxMessages == 1
MaxItems == 2

\* ------------------------------------------------------------------------
\* Strings: the conversions the evaluator applies, over the strings drawn
\* ------------------------------------------------------------------------

\* strings.ToLower on the strings of the model (all others are lower case
\* or have no letters).
ToLower(s) ==
    CASE s = "TRUE" -> "true"
      [] s = "True" -> "true"
      [] s = "IMAGE" -> "image"
      [] s = "Tool" -> "tool"
      [] s = "Authorization" -> "authorization"
      [] s = "X-Api-Key" -> "x-api-key"
      [] s = "Content-Length" -> "content-length"
      [] s = "Host" -> "host"
      [] s = "Accept" -> "accept"
      [] s = "X-Trace" -> "x-trace"
      [] s = "Bearer" -> "bearer"
      [] s = "Basic" -> "basic"
      [] OTHER -> s

\* strconv.ParseFloat(s, 64) on the strings of the model: only the decimal
\* numerals parse.
ParseFloat(s) ==
    CASE s = "2000" -> [ok |-> TRUE, f |-> 2000]
      [] s = "1" -> [ok |-> TRUE, f |-> 1]
      [] s = "0" -> [ok |-> TRUE, f |-> 0]
      [] OTHER -> [ok |-> FALSE, f |-> 0]

\* strings.TrimSpace on a string given as a sequence of one-character
\* strings.
RECURSIVE TrimLeft(_)
TrimLeft(s) ==
    IF s # <<>> /\ Head(s) = " " THEN TrimLeft(Tail(s)) ELSE s

RECURSIVE TrimRight(_)
TrimRight(s) ==
    IF s # <<>> /\ s[Len(s)] = " " THEN TrimRight(SubSeq(s, 1, Len(s) - 1)) ELSE s

\* Mutant of TrimSpace: the string is taken as it is.
TrimSpaceNot(s) == s

TrimSpace(s) == TrimRight(TrimLeft(s))

\* string(chars): the Go string of a sequence of one-character strings.
RECURSIVE Chars2Str(_)
Chars2Str(s) ==
    IF s = <<>> THEN "" ELSE Head(s) \o Chars2Str(Tail(s))

\* ------------------------------------------------------------------------
\* Rule expressions (github.com/expr-lang/expr)
\* ------------------------------------------------------------------------

\* Dynamic values (interface{}): t is the Go type, one of n, s, b the value.
IntVal(n) == [t |-> "int", n |-> n, s |-> "", b |-> FALSE]
Int64Val(n) == [t |-> "int64", n |-> n, s |-> "", b |-> FALSE]
FloatVal(n) == [t |-> "float64", n |-> n, s |-> "", b |-> FALSE]
StrVal(s) == [t |-> "string", n |-> 0, s |-> s, b |-> FALSE]
BoolVal(b) == [t |-> "bool", n |-> 0, s |-> "", b |-> b]
NilVal == [t |-> "nil", n |-> 0, s |-> "", b |-> FALSE]

IsNumber(v) == v.t \in {"int", "int64", "float64"}

\* (value, error) results of eval.
EvalOk(v) == [err |-> FALSE, v |-> v]
EvalErr == [err |-> TRUE, v |-> NilVal]

\* Syntax tree nodes.
literalNode(value) == [k |-> "literal", value |-> value]
identifierNode(name) == [k |-> "identifier", name |-> name]
binaryNode(left, op, right) == [k |-> "binary", op |-> op, left |-> left, right |-> right]

toBool(v) ==
    CASE v.t = "bool" -> v.b
      [] IsNumber(v) -> v.n # 0
      [] v.t = "string" -> ToLower(v.s) = "true" \/ ToLower(v.s) = "1"
      [] OTHER -> FALSE

compareNumeric(left, right) ==
    IsNumber(right) /\ left = right.n

equal(a, b) ==
    CASE a.t = "string" -> b.t = "string" /\ a.s = b.s
      [] IsNumber(a) -> compareNumeric(a.n, b)
      [] a.t = "bool" -> b.t = "bool" /\ a.b = b.b
      [] OTHER -> FALSE

toFloat(v) ==
    CASE IsNumber(v) -> [ok |-> TRUE, f |-> v.n]
      [] v.t = "string" -> ParseFloat(v.s)
      [] OTHER -> [ok |-> FALSE, f |-> 0]

\* cmp is the operator symbol of the comparison closure.
compareNumbers(left, right, cmp) ==
    LET lf == toFloat(left)
        rf == toFloat(right)
    IN  IF ~lf.ok \/ ~rf.ok
        THEN EvalErr
        ELSE EvalOk(BoolVal(CASE cmp = ">" -> lf.f > rf.f
                              [] cmp = ">=" -> lf.f >= rf.f
                              [] cmp = "<" -> lf.f < rf.f
                              [] cmp = "<=" -> lf.f <= rf.f))

\* binaryNode.eval after both operands were evaluated without error.
binaryOp(op, leftVal, rightVal) ==
    CASE op = "&&" -> EvalOk(BoolVal(toBool(leftVal) /\ toBool(rightVal)))
      [] op = "||" -> EvalOk(BoolVal(toBool(leftVal) \/ toBool(rightVal)))
      [] op = "==" -> EvalOk(BoolVal(equal(leftVal, rightVal)))
      [] op = "!=" -> EvalOk(BoolVal(~equal(leftVal, rightVal)))
      [] op \in {">", ">=", "<", "<="} -> compareNumbers(leftVal, rightVal, op)
      [] OTHER -> EvalErr

\* node.eval(vars) for the three node types.
RECURSIVE eval(_, _)
eval(node, vars) ==
    CASE node.k = "literal" -> EvalOk(node.value)
      [] node.k = "identifier" ->
            IF node.name \in DOMAIN vars THEN EvalOk(vars[node.name]) ELSE EvalErr
      [] node.k = "binary" ->
            LET leftVal == eval(node.left, vars)
            IN  IF leftVal.err
                THEN leftVal
                ELSE LET rightVal == eval(node.right, vars)
                     IN  IF rightVal.err
                         THEN rightVal
                         ELSE binaryOp(node.op, leftVal.v, rightVal.v)

\* expr.Compile on the rule texts of the model: the tree the recursive-descent
\* parser builds for each (integer literals are int64, literals with a '.'
\* float64, true/false boolean literals).
Compile(expression) ==
    CASE expression = "TokenCount > 1000" ->
            binaryNode(identifierNode("TokenCount"), ">", literalNode(Int64Val(1000)))
      [] expression = "TokenCount >= 1000.0" ->
            binaryNode(identifierNode("TokenCount"), ">=", literalNode(FloatVal(1000)))
      [] expression = "Model == 'gpt'" ->
            binaryNode(identifierNode("Model"), "==", literalNode(StrVal("gpt")))
      [] expression = "Model > 1000" ->
            binaryNode(identifierNode("Model"), ">", literalNode(Int64Val(1000)))
      [] expression = "Tokens > 1000" ->
            binaryNode(identifierNode("Tokens"), ">", literalNode(Int64Val(1000)))
      [] expression = "true" ->
            literalNode(BoolVal(TRUE))
      [] expression = "TokenCount" ->
            identifierNode("TokenCount")
      [] expression = "'yes'" ->
            literalNode(StrVal("yes"))
      [] expression = "Path && TokenCount" ->
            binaryNode(identifierNode("Path"), "&&", identifierNode("TokenCount"))
      [] expression = "Model == 'gpt' || Tokens > 1000" ->
            binaryNode(binaryNode(identifierNode("Model"), "==", literalNode(StrVal("gpt"))),
                       "||",
                       binaryNode(identifierNode("Tokens"), ">", literalNode(Int64Val(1000))))

\* vm.extractEnv on an EvalEnv struct: one variable per exported field.
extractEnv(env) ==
    [name \in {"TokenCount", "Model", "Path"} |->
        CASE name = "TokenCount" -> IntVal(env.TokenCount)
          [] name = "Model" -> StrVal(env.Model)
          [] name = "Path" -> StrVal(env.Path)]

\* vm.Run(program, env).
Run(program, env) == eval(program, extractEnv(env))

\* ------------------------------------------------------------------------
\* Configuration and the gateway built from it (Gateway.New)
\* ------------------------------------------------------------------------

SeqsUpTo(S, n) == UNION {[1..k -> S] : k \in 0..n}

\* cfg.Providers: two usable providers and one whose base URL url.Parse
\* rejects.
ConfigProviders ==
    << [ID |-> "pA", BaseURL |-> "https://a.example/v1", AccessToken |-> "tokA",
        Type |-> "openai", Headers |-> {}],
       [ID |-> "pB", BaseURL |-> "https://b.example", AccessToken |-> "tokB",
        Type |-> "anthropic", Headers |-> {<< "X-Trace", << "fixed" >> >>}],
       [ID |-> "pBad", BaseURL |-> "http://[bad", AccessToken |-> "tokX",
        Type |-> "openai", Headers |-> {}] >>

\* config.ModelProvider entries a model may list; "ghost" is no provider of
\* cfg.Providers (New does not validate the configuration).
ModelProviderSet ==
    { [ID |-> "pA", Model |-> ""],
      [ID |-> "pB", Model |-> "tm"],
      [ID |-> "ghost", Model |-> ""],
      [ID |-> "pBad", Model |-> ""] }

\* Rule lists of the configurations of Spec.
ProxyRules ==
    { << [Expression |-> "TokenCount > 1000",
          Providers |-> << [Provider |-> "pB", Model |-> "tm"] >>] >>,
      << [Expression |-> "Tokens > 1000",
          Providers |-> << [Provider |-> "ghost", Model |-> ""] >>],
         [Expression |-> "TokenCount > 1000",
          Providers |-> << >>] >> }

\* config.ModelConfig values of Spec: every default candidate list without
\* rules, and one default list under each rule list.
RouteModels ==
    { [Name |-> "gpt", Providers |-> ps, Rules |-> << >>] :
        ps \in SeqsUpTo(ModelProviderSet, MaxCandidates) }
    \cup
    { [Name |-> "gpt", Providers |-> << [ID |-> "pA", Model |-> ""] >>, Rules |-> rs] :
        rs \in ProxyRules }

MakeConfig(models, default, saveUsage) ==
    [Providers |-> ConfigProviders, Models |-> models, Default |-> default,
     SaveUsage |-> saveUsage, APIKeys |-> << "k1" >>]

\* config.Config values of Spec.
Configs ==
    { MakeConfig(<< m >>, "pA", su) : m \in RouteModels, su \in BOOLEAN }
    \cup
    { MakeConfig(<< [Name |-> "gpt", Providers |-> << [ID |-> "pA", Model |-> ""] >>,
                     Rules |-> << >>] >>, d, su) :
        d \in {"", "pB", "pBad", "ghost"}, su \in BOOLEAN }

\* The last entry of cfg.Providers with the given ID and the last entry of
\* cfg.Models with the given name (a later map assignment overwrites an
\* earlier one).
LastProvider(cfg, id) ==
    cfg.Providers[CHOOSE i \in 1..Len(cfg.Providers) :
        /\ cfg.Providers[i].ID = id
        /\ \A j \in (i + 1)..Len(cfg.Providers) : cfg.Providers[j].ID # id]

LastModel(cfg, name) ==
    cfg.Models[CHOOSE i \in 1..Len(cfg.Models) :
        /\ cfg.Models[i].Name = name
        /\ \A j \in (i + 1)..Len(cfg.Models) : cfg.Models[j].Name # name]

\* One compiledRule of New.
CompileRule(r) ==
    [program |-> Compile(r.Expression),
     providers |-> [j \in 1..Len(r.Providers) |->
                      [id |-> r.Providers[j].Provider, model |-> r.Providers[j].Model]]]

\* gateway.New(cfg, usageStore); usageStore is TRUE for a store, FALSE for
\* nil; a pointer is a sequence of length at most one.
New(cfg, usageStore) ==
    LET ids == {cfg.Providers[i].ID : i \in 1..Len(cfg.Providers)}
        providers == [id \in ids |-> LastProvider(cfg, id)]
        names == {cfg.Models[i].Name : i \in 1..Len(cfg.Models)}
        models == [name \in names |->
            LET m == LastModel(cfg, name)
            IN  [config |-> m,
                 rules |-> [i \in 1..Len(m.Rules) |-> CompileRule(m.Rules[i])]]]
    IN  [cfg |-> cfg,
         providers |-> providers,
         models |-> models,
         defaultProvider |->
            IF cfg.Default # "" /\ cfg.Default \in ids
            THEN << providers[cfg.Default] >>
            ELSE << >>,
         usageStore |-> usageStore]

\* ------------------------------------------------------------------------
\* Routing (Gateway.selectProviders)
\* ------------------------------------------------------------------------

EvalEnv(tokenCount, model, path) ==
    [TokenCount |-> tokenCount, Model |-> model, Path |-> path]

\* Mutant of Matched: any truthy value matches, as toBool has it.
MatchedTruthy(out) == ~out.err /\ toBool(out.v)

\* out.(bool) succeeded and the value is true.
Matched(out) == ~out.err /\ out.v.t = "bool" /\ out.v.b

\* The route's default candidates as ruleProvider values.
DefaultProviders(route) ==
    [i \in 1..Len(route.config.Providers) |->
        [id |-> route.config.Providers[i].ID, model |-> route.config.Providers[i].Model]]

\* The loop over route.rules from rule i on.
RECURSIVE selectFrom(_, _, _)
selectFrom(route, env, i) ==
    IF i > Len(route.rules)
    THEN DefaultProviders(route)
    ELSE IF Matched(Run(route.rules[i].program, env))
         THEN route.rules[i].providers
         ELSE selectFrom(route, env, i + 1)

selectProviders(route, model, tokenCount, path) ==
    selectFrom(route, EvalEnv(tokenCount, model, path), 1)

\* ------------------------------------------------------------------------
\* Errors, HTTP responses and the client's ResponseWriter
\* ------------------------------------------------------------------------

\* error values: kind "nil" is no error, "retryable" a *retryableError,
\* "error" any other error; msg is Error().
NoErr ==
    [kind |-> "nil", msg |-> "", providerID |-> "", status |-> 0,
     header |-> {}, body |-> << >>]

Errorf(msg) ==
    [kind |-> "error", msg |-> msg, providerID |-> "", status |-> 0,
     header |-> {}, body |-> << >>]

\* &retryableError{providerID, status, header, body} with its Error() text.
retryableError(providerID, status, header, body) ==
    [kind |-> "retryable",
     msg |-> "provider " \o providerID \o " returned status " \o ToString(status)
             \o ", body: " \o Chars2Str(body),
     providerID |-> providerID, status |-> status, header |-> header, body |-> body]

\* Mutant of IsShouldRetry: every error counts as retryable.
IsAnyError(err) == err.kind # "nil"

\* errors.Is(err, errShouldRetry) and errors.As(err, &retryErr): only a
\* *retryableError unwraps to errShouldRetry.
IsShouldRetry(err) == err.kind = "retryable"

\* Mutant of shouldRetryStatus: only server errors (5xx) are retried.
shouldRetryServerError(status) == status >= 500

shouldRetryStatus(status) == status >= 400

\* Upstream responses: a status, the header lines and the body in chunks.
Statuses == {200, 400, 503}
RespHeaders == {{"Content-Type: application/json"}, {"Content-Type: text/event-stream"}}
RespBodies == {<< >>, <<"b1", "b2">>}
Responses == [StatusCode : Statuses, Header : RespHeaders, Body : RespBodies]

Prefixes(b) == {SubSeq(b, 1, k) : k \in 0..Len(b)}

isEventStreamResponse(header) == "Content-Type: text/event-stream" \in header

\* The ResponseWriter handed to Proxy: nothing written, no header set.
NewResponseWriter ==
    [wroteHeader |-> FALSE, status |-> 0, header |-> {}, body |-> << >>]

\* w.WriteHeader(code): the first call fixes status and headers, a later
\* call is ignored.
WriteHeader(rw, code) ==
    IF rw.wroteHeader THEN rw ELSE [rw EXCEPT !.wroteHeader = TRUE, !.status = code]

\* w.Write(chunks): an implicit WriteHeader(200) when none was written.
Write(rw, chunks) ==
    LET h == WriteHeader(rw, 200)
    IN  [h EXCEPT !.body = h.body \o chunks]

\* Changes of w.Header() after the header was written do not reach the
\* client.
SetHeader(rw, header) ==
    IF rw.wroteHeader THEN rw ELSE [rw EXCEPT !.header = header]

\* copyResponseHeaders(dst, src): delete every key of dst, add src's values.
copyResponseHeaders(dst, src) == (dst \ {k \in dst : TRUE}) \cup src

\* http.Error(w, error, code).
httpError(rw, error, code) ==
    Write(WriteHeader(SetHeader(rw, (rw.header \ {"Content-Length"})
                                      \cup {"Content-Type: text/plain; charset=utf-8",
                                            "X-Content-Type-Options: nosniff"}),
                      code),
          << error >>)

\* ------------------------------------------------------------------------
\* Requests
\* ------------------------------------------------------------------------

\* Request bodies after normalization, by the fields Proxy reads: valid is
\* whether the bytes are a JSON object, model the top-level "model" ("" when
\* missing or empty), stream the top-level "stream", tokens the prompt-token
\* estimate of the bytes; seed stands for the other fields of the object: the
\* text of a top-level JSON number.
MakeBody(valid, model, stream, tokens) ==
    [valid |-> valid, model |-> model, stream |-> stream, tokens |-> tokens,
     seed |-> "7"]

\* The body with another number as its "seed".
WithSeed(body, number) == [body EXCEPT !.seed = number]

RequestBodies ==
    { MakeBody(FALSE, "", FALSE, 0), MakeBody(TRUE, "", FALSE, 0),
      MakeBody(TRUE, "gpt", FALSE, 500), MakeBody(TRUE, "gpt", TRUE, 1500),
      MakeBody(TRUE, "other", FALSE, 500), MakeBody(TRUE, "other", TRUE, 1500),
      WithSeed(MakeBody(TRUE, "gpt", FALSE, 500), "9007199254740993") }

\* X-Request-ID header values: absent, blank, and an id with blanks around.
XRequestIDs == { << >>, << " " >>, << " ", "r", "1", " " >> }

\* An http.Header is the set of its (key, value) entries; a value is the
\* sequence of its words and blanks.  The headers of the requests of Spec
\* (X-Request-ID is kept apart in XRequestID).
ProxyHeader ==
    { << "Authorization", << "Bearer", " ", "k1" >> >>,
      << "Content-Length", << "99" >> >>,
      << "Accept", << "json" >> >>,
      << "X-Trace", << "t1" >> >> }

Requests ==
    [bodyErr : BOOLEAN, body : RequestBodies, XRequestID : XRequestIDs,
     Path : {"/v1/chat/completions"}, Method : {"POST"}, Header : {ProxyHeader}]

\* Mutant of GetModel: a body without a model is given the model "gpt".
GetModelOrDefault(body) == IF body.valid /\ body.model # "" THEN body.model ELSE "gpt"

\* gjson.GetBytes(body, "model").String() and
\* gjson.GetBytes(body, "stream").Bool().
GetModel(body) == IF body.valid THEN body.model ELSE ""
GetStream(body) == body.valid /\ body.stream

\* CountTokens(model, reqType, body): the estimate of the body.
CountTokens(model, body) == IF body.valid THEN body.tokens ELSE 0

\* A JSON number decoded by json.Unmarshal into an interface{} (a float64) and
\* encoded again by json.Marshal, on the numbers of the model: an integer
\* above 2^53 comes back as the nearest float64.
Float64RoundTrip(number) ==
    CASE number = "9007199254740993" -> "9007199254740992"
      [] OTHER -> number

\* A SetBytes that encodes the map again without setting the key.
SetBytesKeepsModel(data, value) ==
    IF data.valid
    THEN [err |-> FALSE, data |-> [data EXCEPT !.seed = Float64RoundTrip(@)]]
    ELSE [err |-> TRUE, data |-> data]

\* sjson.SetBytes(data, "model", value): the object is decoded into a
\* map[string]interface{}, the key is set and the map is encoded again.
SetBytes(data, value) ==
    IF data.valid
    THEN [err |-> FALSE,
          data |-> [data EXCEPT !.model = value, !.seed = Float64RoundTrip(@)]]
    ELSE [err |-> TRUE, data |-> data]

\* uuid.NewString() of the n-th call.
NewUUID(n) == "uuid-" \o ToString(n)

\* url.Parse(base) succeeds (the first step of joinURL).
UrlParses(base) == base # "http://[bad"

\* ------------------------------------------------------------------------
\* Usage records (usage.go)
\* ------------------------------------------------------------------------

UsageEnabled(g) == g.usageStore /\ g.cfg.SaveUsage

\* prepareUsageRecord: nil (the empty sequence) when recording is off.  Of
\* storage.UsageRecord the fields without a clock or a response text are kept.
prepareUsageRecord(g, providerID, model, originalModel, path, requestID, tokens, status, attempt) ==
    IF ~UsageEnabled(g)
    THEN << >>
    ELSE << [Provider |-> providerID,
             Model |-> model,
             OriginalModel |-> originalModel,
             Path |-> path,
             RequestTokens |-> tokens,
             StatusCode |-> status,
             RequestID |-> requestID,
             Attempt |-> IF attempt <= 0 THEN 1 ELSE attempt,
             Outcome |-> ""] >>

\* Mutant of SetOutcome: every outcome set is success.
SetOutcomeSuccess(rec, outcome) ==
    IF rec = << >> THEN rec ELSE << [rec[1] EXCEPT !.Outcome = "success"] >>

\* record.Outcome = outcome, record.StatusCode = status, when record != nil.
SetOutcome(rec, outcome) ==
    IF rec = << >> THEN rec ELSE << [rec[1] EXCEPT !.Outcome = outcome] >>

SetStatusCode(rec, status) ==
    IF rec = << >> THEN rec ELSE << [rec[1] EXCEPT !.StatusCode = status] >>

\* A saveUsageRecord that puts the record before those handed over earlier.
saveUsageRecordFirst(g, saved, rec) ==
    IF ~UsageEnabled(g) THEN saved ELSE << rec >> \o saved

\* saveUsageRecord(ctx, record): hands the record to a goroutine that calls
\* usageStore.RecordUsage; saved is the sequence of records handed over.
saveUsageRecord(g, saved, rec) ==
    IF ~UsageEnabled(g) THEN saved ELSE Append(saved, rec)

\* "if record != nil { g.saveUsageRecord(r.Context(), *record) }"
SaveIfRecord(g, saved, rec) ==
    IF rec # << >> THEN saveUsageRecord(g, saved, rec[1]) ELSE saved

\* ------------------------------------------------------------------------
\* State
\* ------------------------------------------------------------------------

VARIABLES
    gw,            \* the Gateway built by New
    req,           \* the incoming request r
    proxy,         \* the locals of Proxy and of its current forwardRequest call
                   \* (err: the error the latest attempt ended with)
    w,             \* the client's ResponseWriter
    usageRecords,  \* the records handed to saveUsageRecord's goroutines, in order
    uuids,         \* the number of uuid.NewString() calls made
    calls,         \* history: the httpClient.Do calls made, in order
    wroteBy,       \* history: who made w's status line: 0 nobody yet, n the
                   \* forwardRequest of attempt n, -1 Proxy itself
    reqCtx,        \* r.Context(): "active", or "canceled" once the client is gone
    tasks,         \* the goroutines started by saveUsageRecord, one per entry
                   \* of usageRecords
    store,         \* the storage.Store: its kind, its usage records, its id counter
    now,           \* time.Now(), in the clock units of the specification
    cleanup,       \* the goroutine of Server.startCleanupTask
    ret            \* the latest storage call and what it returned

\* The variables of the activity behind the request path.
background == <<reqCtx, tasks, store, now, cleanup, ret>>

vars == <<gw, req, proxy, w, usageRecords, uuids, calls, wroteBy, background>>

\* storage.New: a store of the configured kind with no record yet.
NewStore(kind) == [kind |-> kind, records |-> << >>, nextID |-> 0]

\* No client disconnect, no goroutine, an empty store and no cleanup task.
NoBackground ==
    /\ reqCtx = "active"
    /\ tasks = << >>
    /\ store = NewStore("file")
    /\ now = 0
    /\ cleanup = [pc |-> "off"]
    /\ ret = << >>

\* cmd/gateway/main.go builds the usage store exactly when cfg.SaveUsage.
Gateways == { New(c, c.SaveUsage) : c \in Configs }

NewProxy ==
    [pc |-> "start",
     bodyBytes |-> MakeBody(FALSE, "", FALSE, 0),
     modelName |-> "", tokenCount |-> 0, requestID |-> "", stream |-> FALSE,
     candidates |-> << >>, attempt |-> 0, err |-> NoErr, lastErr |-> NoErr,
     viaDefault |-> FALSE, fwd |-> << >>, record |-> << >>, resp |-> << >>]

Init ==
    /\ gw \in Gateways
    /\ req \in Requests
    /\ proxy = NewProxy
    /\ w = NewResponseWriter
    /\ usageRecords = << >>
    /\ uuids = 0
    /\ calls = << >>
    /\ wroteBy = 0
    /\ NoBackground

\* ------------------------------------------------------------------------
\* Gateway.Proxy and Gateway.forwardRequest
\* ------------------------------------------------------------------------

\* Proxy answers with http.Error and returns.
ReplyError(p, error, code) ==
    /\ w' = httpError(w, error, code)
    /\ wroteBy' = IF w.wroteHeader THEN wroteBy ELSE -1
    /\ proxy' = [p EXCEPT !.pc = "done"]

\* Mutant of Continue: the first candidate is tried a second time.
ContinueRetriesFirst(p) ==
    IF p.attempt = 1 /\ Len(calls) = 1
    THEN [p EXCEPT !.pc = "loop"]
    ELSE IF p.attempt < Len(p.candidates)
         THEN [p EXCEPT !.attempt = @ + 1, !.pc = "loop"]
         ELSE [p EXCEPT !.pc = "exhausted"]

\* The loop's "continue": the next candidate, or the code after the loop.
Continue(p) ==
    IF p.attempt < Len(p.candidates)
    THEN [p EXCEPT !.attempt = @ + 1, !.pc = "loop"]
    ELSE [p EXCEPT !.pc = "exhausted"]

\* forwardRequest up to httpClient.Do: the usage record and the upstream
\* URL; do is whether the request is sent.
ForwardPrepare(g, provider, model, path, tokens, attemptNo, requestID, originalModel) ==
    LET record == prepareUsageRecord(g, provider.ID, model, originalModel, path,
                                     requestID, tokens, 0, attemptNo)
    IN  IF ~UrlParses(provider.BaseURL)
        THEN [do |-> FALSE, record |-> SetOutcome(record, "failure"),
              err |-> Errorf("build provider url: parse " \o provider.BaseURL)]
        ELSE [do |-> TRUE, record |-> record, err |-> NoErr]

\* forwardRequest has returned (record, fwdErr) to the default-provider branch
\* of Proxy; rw is the writer as forwardRequest left it.
DefaultReturned(p, rw, record, fwdErr) ==
    /\ usageRecords' = SaveIfRecord(gw, usageRecords, record)
    /\ w' = IF fwdErr.kind = "nil"
            THEN rw
            ELSE IF IsShouldRetry(fwdErr)
                 THEN httpError(rw, fwdErr.msg, 502)
                 ELSE httpError(rw, "forward to default provider: " \o fwdErr.msg, 502)
    /\ proxy' = [p EXCEPT !.pc = "done", !.record = record, !.err = fwdErr]

\* Mutant of LoopReturned: the loop goes on to the next candidate after any
\* error of forwardRequest.
LoopReturnedContinues(p, rw, record, err) ==
    /\ usageRecords' = SaveIfRecord(gw, usageRecords, record)
    /\ w' = rw
    /\ proxy' = IF err.kind = "nil"
                THEN [p EXCEPT !.pc = "done", !.record = record, !.err = err]
                ELSE Continue([p EXCEPT !.err = err, !.lastErr = err, !.record = record])

\* forwardRequest has returned (record, err) to the candidate loop of Proxy.
LoopReturned(p, rw, record, err) ==
    /\ usageRecords' = SaveIfRecord(gw, usageRecords, record)
    /\ w' = rw
    /\ proxy' = IF err.kind = "nil"
                THEN [p EXCEPT !.pc = "done", !.record = record, !.err = err]
                ELSE IF IsShouldRetry(err)
                     THEN Continue([p EXCEPT !.err = err, !.lastErr = err,
                                             !.record = record])
                     ELSE [p EXCEPT !.pc = "done", !.err = err, !.lastErr = err,
                                    !.record = record]

Returned(p, rw, record, err) ==
    IF p.viaDefault
    THEN DefaultReturned(p, rw, record, err)
    ELSE LoopReturned(p, rw, record, err)

\* textproto.CanonicalMIMEHeaderKey on the keys the code passes to
\* Header.Set and Header.Del.
CanonicalKey(key) ==
    CASE key = "x-api-key" -> "X-Api-Key"
      [] OTHER -> key

\* Header.Del(key) and Header.Set(key, value).
HeaderDel(h, key) == { e \in h : e[1] # CanonicalKey(key) }

HeaderSet(h, key, value) == HeaderDel(h, key) \cup { << CanonicalKey(key), value >> }

\* The header names copyHeaders leaves out.
SkippedHeaders == {"content-length", "authorization", "x-api-key", "host"}

\* Mutant of copyHeaders: every incoming header is copied.
copyHeadersAll(dst, src) == dst \cup src

\* copyHeaders(dst, src).
copyHeaders(dst, src) ==
    HeaderDel(HeaderDel(HeaderDel(dst, "Content-Length"), "Authorization"), "x-api-key")
    \cup { e \in src : ToLower(e[1]) \notin SkippedHeaders }

\* A SetCredentials that sends every provider a bearer token.
SetCredentialsBearer(h, provider) ==
    HeaderDel(HeaderSet(h, "Authorization", << "Bearer", " ", provider.AccessToken >>),
              "x-api-key")

\* The credential header of the provider's type.
SetCredentials(h, provider) ==
    IF provider.Type = "anthropic"
    THEN HeaderDel(HeaderSet(h, "x-api-key", << provider.AccessToken >>), "Authorization")
    ELSE HeaderDel(HeaderSet(h, "Authorization", << "Bearer", " ", provider.AccessToken >>),
                   "x-api-key")

\* "for k, v := range provider.Headers { req.Header.Set(k, v) }"
RECURSIVE SetProviderHeaders(_, _)
SetProviderHeaders(h, fixed) ==
    IF fixed = {}
    THEN h
    ELSE LET e == CHOOSE x \in fixed : TRUE
         IN  SetProviderHeaders(HeaderSet(h, e[1], e[2]), fixed \ {e})

\* req.Header of the outbound request as forwardRequest leaves it.
OutboundHeader(provider, incoming) ==
    SetProviderHeaders(SetCredentials(copyHeaders({}, incoming), provider),
                       provider.Headers)

\* req.URL.Host of the outbound request, on the base URLs of the model.
UrlHost(base) ==
    CASE base = "https://a.example/v1" -> "a.example"
      [] base = "https://b.example" -> "b.example"
      [] OTHER -> ""

\* The request handed to httpClient.Do (its Content-Length is the length of
\* body).
Call(attemptNo, provider, model, body) ==
    [attempt |-> attemptNo, provider |-> provider.ID, model |-> model,
     body |-> body, reply |-> "pending", status |-> 0,
     header |-> OutboundHeader(provider, req.Header),
     host |-> UrlHost(provider.BaseURL)]

\* forwardRequest sends the request: Proxy waits in httpClient.Do.
Dispatch(p, provider, model, body, record) ==
    /\ proxy' = [p EXCEPT !.pc = "dispatch", !.record = record,
                          !.fwd = << [provider |-> provider, model |-> model,
                                      body |-> body] >>]
    /\ calls' = Append(calls, Call(p.attempt, provider, model, body))
    /\ UNCHANGED <<w, wroteBy, usageRecords>>

\* Proxy from its entry to the first httpClient.Do or to its return.
ProxyBegin ==
    /\ proxy.pc = "start"
    /\ UNCHANGED <<background, gw, req>>
    /\ IF req.bodyErr
       THEN /\ ReplyError(proxy, "read request body: unexpected EOF", 400)
            /\ UNCHANGED <<usageRecords, uuids, calls>>
       ELSE
       LET bodyBytes == req.body
           modelName == GetModel(bodyBytes)
       IN  IF modelName = ""
           THEN /\ ReplyError(proxy, "model is required", 400)
                /\ UNCHANGED <<usageRecords, uuids, calls>>
           ELSE
           LET tokenCount == CountTokens(modelName, bodyBytes)
               trimmed == TrimSpace(req.XRequestID)
               requestID == IF trimmed = << >> THEN NewUUID(uuids + 1)
                                               ELSE Chars2Str(trimmed)
               p == [proxy EXCEPT !.bodyBytes = bodyBytes, !.modelName = modelName,
                                  !.tokenCount = tokenCount, !.requestID = requestID,
                                  !.stream = GetStream(bodyBytes)]
           IN  /\ uuids' = IF trimmed = << >> THEN uuids + 1 ELSE uuids
               /\ IF modelName \notin DOMAIN gw.models
                  THEN IF gw.defaultProvider # << >>
                       THEN LET d == [p EXCEPT !.viaDefault = TRUE, !.attempt = 1]
                                f == ForwardPrepare(gw, gw.defaultProvider[1], modelName,
                                                    req.Path, tokenCount, 1, requestID,
                                                    modelName)
                            IN  IF f.do
                                THEN Dispatch(d, gw.defaultProvider[1], modelName,
                                              bodyBytes, f.record)
                                ELSE /\ DefaultReturned(d, w, f.record, f.err)
                                     /\ wroteBy' = -1
                                     /\ UNCHANGED calls
                       ELSE /\ ReplyError(p, "model " \o modelName \o " not configured", 404)
                            /\ UNCHANGED <<usageRecords, calls>>
                  ELSE LET candidates == selectProviders(gw.models[modelName], modelName,
                                                         tokenCount, req.Path)
                       IN  IF Len(candidates) = 0
                           THEN /\ ReplyError(p, "no provider available", 502)
                                /\ UNCHANGED <<usageRecords, calls>>
                           ELSE /\ proxy' = [p EXCEPT !.candidates = candidates,
                                                      !.attempt = 1, !.pc = "loop"]
                                /\ UNCHANGED <<w, wroteBy, usageRecords, calls>>

\* Mutant of modifiedBody: the body of the previous attempt is rewritten.
modifiedBodyOfLast(bodyBytes, targetModel, modelName) ==
    LET last == IF calls = << >> THEN bodyBytes ELSE calls[Len(calls)].body
    IN  IF targetModel # modelName THEN SetBytes(last, targetModel)
                                   ELSE [err |-> FALSE, data |-> last]

\* "modifiedBody := bodyBytes; if targetModel != modelName { modifiedBody,
\* err = sjson.SetBytes(bodyBytes, "model", targetModel) ... }"
modifiedBody(bodyBytes, targetModel, modelName) ==
    IF targetModel # modelName THEN SetBytes(bodyBytes, targetModel)
                               ELSE [err |-> FALSE, data |-> bodyBytes]

\* One iteration of the candidate loop up to httpClient.Do, or to its
\* "continue" when the attempt fails before anything is sent.
TryCandidate ==
    /\ proxy.pc = "loop"
    /\ UNCHANGED <<background, gw, req, uuids>>
    /\ LET candidate == proxy.candidates[proxy.attempt]
           attempt == proxy.attempt
       IN  IF candidate.id \notin DOMAIN gw.providers
           THEN LET err == Errorf("provider " \o candidate.id \o " not found")
                    rec == SetOutcome(
                             prepareUsageRecord(gw, candidate.id, candidate.model,
                                                proxy.modelName, req.Path, proxy.requestID,
                                                proxy.tokenCount, 0, attempt),
                             "failure")
                IN  /\ usageRecords' = SaveIfRecord(gw, usageRecords, rec)
                    /\ proxy' = Continue([proxy EXCEPT !.err = err, !.lastErr = err,
                                                        !.record = rec])
                    /\ UNCHANGED <<w, wroteBy, calls>>
           ELSE
           LET provider == gw.providers[candidate.id]
               targetModel == IF candidate.model # "" THEN candidate.model
                                                      ELSE proxy.modelName
               set == modifiedBody(proxy.bodyBytes, targetModel, proxy.modelName)
           IN  IF set.err
               THEN LET err == Errorf("modify request body: invalid json")
                        rec == SetOutcome(
                                 prepareUsageRecord(gw, provider.ID, targetModel,
                                                    proxy.modelName, req.Path,
                                                    proxy.requestID, proxy.tokenCount,
                                                    0, attempt),
                                 "failure")
                    IN  /\ usageRecords' = SaveIfRecord(gw, usageRecords, rec)
                        /\ proxy' = Continue([proxy EXCEPT !.err = err, !.lastErr = err,
                                                            !.record = rec])
                        /\ UNCHANGED <<w, wroteBy, calls>>
               ELSE LET f == ForwardPrepare(gw, provider, targetModel, req.Path,
                                            proxy.tokenCount, attempt, proxy.requestID,
                                            proxy.modelName)
                    IN  IF f.do
                        THEN Dispatch(proxy, provider, targetModel, set.data, f.record)
                        ELSE /\ LoopReturned(proxy, w, f.record, f.err)
                             /\ UNCHANGED <<wroteBy, calls>>

\* The last call of the history gets its reply.
Replied(kind, status) ==
    [calls EXCEPT ![Len(calls)] = [@ EXCEPT !.reply = kind, !.status = status]]

\* httpClient.Do returns an error: no connection, DNS failure, timeout or
\* cancellation before the response headers.
UpstreamTransportError ==
    /\ proxy.pc = "dispatch"
    /\ UNCHANGED <<background, gw, req, uuids>>
    /\ LET f == proxy.fwd[1]
           err == Errorf("[" \o f.model \o "] forward request to " \o f.provider.ID
                         \o ": connection refused")
       IN  /\ Returned(proxy, w, SetOutcome(proxy.record, "failure"), err)
           /\ wroteBy' = IF proxy.viaDefault THEN -1 ELSE wroteBy
           /\ calls' = Replied("transport", 0)

\* httpClient.Do returns the upstream response resp: a status >= 400 is
\* drained (a read error of the drain is dropped) and returned as a
\* retryableError, any other status is written to the client at once.
UpstreamResponds ==
    /\ proxy.pc = "dispatch"
    /\ UNCHANGED <<background, gw, req, uuids>>
    /\ \E resp \in Responses :
        LET f == proxy.fwd[1]
            record == SetStatusCode(proxy.record, resp.StatusCode)
            p == [proxy EXCEPT !.resp = << resp >>]
        IN  /\ calls' = Replied("response", resp.StatusCode)
            /\ IF shouldRetryStatus(resp.StatusCode)
               THEN \E respBody \in Prefixes(resp.Body) :
                       /\ Returned(p, w, SetOutcome(record, "failure"),
                                   retryableError(f.provider.ID, resp.StatusCode,
                                                  resp.Header, respBody))
                       /\ wroteBy' = IF proxy.viaDefault THEN -1 ELSE wroteBy
               ELSE /\ w' = WriteHeader(
                              SetHeader(w, copyResponseHeaders(w.header, resp.Header)),
                              resp.StatusCode)
                    /\ wroteBy' = proxy.attempt
                    /\ proxy' = [p EXCEPT !.pc = "copy", !.record = record]
                    /\ UNCHANGED usageRecords

\* The ways the copy of resp.Body to the client can fail: the chunks that
\* reached the client before the failure, and the error forwardRequest
\* returns.  Streaming copies chunk by chunk; otherwise the body is read
\* whole (nothing written on a read error) and written in one Write.
CopyFailures(streaming, model, providerID, body) ==
    IF streaming
    THEN { [written |-> SubSeq(body, 1, k),
            err |-> Errorf("[" \o model \o "] stream response from " \o providerID
                           \o ": unexpected EOF")] : k \in 0..Len(body) }
    ELSE { [written |-> << >>,
            err |-> Errorf("[" \o model \o "] read response from " \o providerID
                           \o ": unexpected EOF")] }
         \cup
         { [written |-> SubSeq(body, 1, k),
            err |-> Errorf("write: broken pipe")] : k \in 0..(Len(body) - 1) }

\* The body of resp reaches the client completely; forwardRequest returns
\* (record, nil).
CopyBodyOk ==
    /\ proxy.pc = "copy"
    /\ UNCHANGED <<background, gw, req, uuids, calls, wroteBy>>
    /\ LET resp == proxy.resp[1]
           record == IF proxy.record # << >> /\ proxy.record[1].Outcome = ""
                     THEN SetOutcome(proxy.record, "success")
                     ELSE proxy.record
       IN  Returned(proxy, Write(w, resp.Body), record, NoErr)

\* The copy of the body fails after the status line was written.
CopyBodyFails ==
    /\ proxy.pc = "copy"
    /\ UNCHANGED <<background, gw, req, uuids, calls, wroteBy>>
    /\ LET resp == proxy.resp[1]
           f == proxy.fwd[1]
           streaming == proxy.stream \/ isEventStreamResponse(resp.Header)
       IN  \E c \in CopyFailures(streaming, f.model, f.provider.ID, resp.Body) :
               Returned(proxy,
                        IF c.written = << >> THEN w ELSE Write(w, c.written),
                        SetOutcome(proxy.record, "failure"), c.err)

\* The code after the loop: every candidate was tried and none returned.
Exhausted ==
    /\ proxy.pc = "exhausted"
    /\ UNCHANGED <<background, gw, req, uuids, calls, usageRecords>>
    /\ LET lastErr == IF proxy.lastErr.kind = "nil"
                      THEN Errorf("no available provider")
                      ELSE proxy.lastErr
       IN  IF IsShouldRetry(lastErr)
           THEN LET h == WriteHeader(
                           SetHeader(w, copyResponseHeaders(w.header, lastErr.header)),
                           lastErr.status)
                IN  /\ w' = IF Len(lastErr.body) > 0 THEN Write(h, lastErr.body) ELSE h
                    /\ wroteBy' = -1
                    /\ proxy' = [proxy EXCEPT !.pc = "done"]
           ELSE ReplyError(proxy, lastErr.msg, 502)

Next ==
    \/ ProxyBegin
    \/ TryCandidate
    \/ UpstreamTransportError
    \/ UpstreamResponds
    \/ CopyBodyOk
    \/ CopyBodyFails
    \/ Exhausted

Spec == Init /\ [][Next]_vars

\* ------------------------------------------------------------------------
\* selectProviders applied to drawn routes and environments
\* ------------------------------------------------------------------------

SelectExpressions ==
    {"TokenCount > 1000", "Model == 'gpt'", "Tokens > 1000", "true", "TokenCount",
     "Model > 1000"}

SelectTokenCounts == {500, 1000, 1500}

SelectModelNames == {"gpt", "other"}

\* The rule at position i answers with provider pB under a target model that
\* names the position.
SelectRule(expression, i) ==
    [Expression |-> expression,
     Providers |-> << [Provider |-> "pB", Model |-> "tm" \o ToString(i)] >>]

\* Routes of one model with every rule list up to MaxRules and a default
\* list of two candidates.
SelectModels ==
    { [Name |-> "gpt",
       Providers |-> << [ID |-> "pA", Model |-> ""], [ID |-> "pB", Model |-> "tm"] >>,
       Rules |-> [i \in 1..Len(es) |-> SelectRule(es[i], i)]] :
        es \in SeqsUpTo(SelectExpressions, MaxRules) }
    \cup
    { [Name |-> "gpt",
       Providers |-> << [ID |-> "pA", Model |-> ""] >>,
       Rules |-> << [Expression |-> "TokenCount > 1000",
                     Providers |-> << [Provider |-> "pB", Model |-> ""] >>] >>] }

InitSelect ==
    /\ gw \in { New(MakeConfig(<< m >>, "", FALSE), FALSE) : m \in SelectModels }
    /\ req \in { r \in Requests : ~r.bodyErr /\ r.XRequestID = << >>
                                   /\ r.body = MakeBody(TRUE, "gpt", FALSE, 500) }
    /\ proxy \in { [NewProxy EXCEPT !.pc = "select", !.modelName = m, !.tokenCount = t] :
                    m \in SelectModelNames, t \in SelectTokenCounts }
    /\ w = NewResponseWriter
    /\ usageRecords = << >>
    /\ uuids = 0
    /\ calls = << >>
    /\ wroteBy = 0
    /\ NoBackground

\* candidates := g.selectProviders(route, modelName, tokenCount, r.URL.Path)
Select ==
    /\ proxy.pc = "select"
    /\ proxy' = [proxy EXCEPT
                    !.candidates = selectProviders(gw.models["gpt"], proxy.modelName,
                                                   proxy.tokenCount, req.Path),
                    !.pc = "selected"]
    /\ UNCHANGED <<background, gw, req, w, usageRecords, uuids, calls, wroteBy>>

NextSelect == Select

SpecSelect == InitSelect /\ [][NextSelect]_vars

\* ------------------------------------------------------------------------
\* Properties of the candidate loop
\* ------------------------------------------------------------------------

\* The attempts (candidate positions) for which a request was sent upstream.
Contacted == { calls[k].attempt : k \in 1..Len(calls) }

\* The request has passed the request checks and is served by the candidate
\* loop of a configured model.
InLoop == ~proxy.viaDefault /\ Len(proxy.candidates) > 0

\* The candidate at position j names no provider of the gateway.
Unresolved(j) == proxy.candidates[j].id \notin DOMAIN gw.providers

\* Call k got an upstream response with a status below 400.
Accepted(k) == calls[k].reply = "response" /\ calls[k].status < 400

\* Call k got an upstream response with a status of 400 or above.
Rejected(k) == calls[k].reply = "response" /\ calls[k].status >= 400

\* C1 (as amended): candidates are contacted in list order, one at a time and
\* each at most once; a candidate is contacted only after every earlier
\* candidate either returned a status >= 400 or named no provider and was
\* skipped without being contacted; only a status < 400 is ever written by an
\* attempt, and once a candidate returns a status < 400 that status is the
\* client's, no later candidate is contacted, and the client's body is the
\* upstream body when the copy ended without error.
C1_OrderedFailover ==
    InLoop =>
        /\ \A k \in 1..Len(calls) :
            /\ calls[k].attempt \in 1..Len(proxy.candidates)
            /\ calls[k].provider = proxy.candidates[calls[k].attempt].id
            /\ k < Len(calls) => calls[k].attempt < calls[k + 1].attempt
            /\ k < Len(calls) => Rejected(k)
            /\ \A j \in 1..(calls[k].attempt - 1) : j \in Contacted \/ Unresolved(j)
            /\ Accepted(k) =>
                /\ k = Len(calls)
                /\ proxy.pc \in {"copy", "done"}
                /\ w.wroteHeader /\ w.status = calls[k].status
                /\ wroteBy = calls[k].attempt
                /\ (proxy.pc = "done" /\ proxy.err.kind = "nil")
                      => w.body = proxy.resp[1].Body
        /\ wroteBy >= 1 =>
              /\ Len(calls) > 0
              /\ Accepted(Len(calls))
              /\ calls[Len(calls)].attempt = wroteBy

\* C1 witness: the first candidate returned 503, the second 200, and the
\* second's body reached the client.
C1_Witness ==
    /\ InLoop /\ proxy.pc = "done" /\ proxy.err.kind = "nil"
    /\ Len(calls) = 2
    /\ calls[1].status = 503 /\ calls[2].status = 200
    /\ w.status = 200 /\ w.body = <<"b1", "b2">>

\* C1 as stated: candidate i+1 is contacted only after candidate i returned a
\* status >= 400 (so the k-th call is to the k-th candidate), and once a
\* candidate returns a status < 400 that status and body are what the client
\* has when the request ends.
C1_AsStated ==
    InLoop =>
        \A k \in 1..Len(calls) :
            /\ calls[k].attempt = k
            /\ calls[k].provider = proxy.candidates[k].id
            /\ k < Len(calls) => Rejected(k)
            /\ Accepted(k) =>
                /\ k = Len(calls)
                /\ w.wroteHeader /\ w.status = calls[k].status
                /\ proxy.pc = "done" => w.body = proxy.resp[1].Body

\* C2 as stated: when every candidate was tried and the last attempt failed,
\* the client has exactly the last upstream response (status, headers, body)
\* if that failure was an upstream status >= 400, and otherwise a 502 whose
\* body is the last error's message.
C2_ExhaustionReply ==
    ( /\ InLoop /\ proxy.pc = "done"
      /\ proxy.attempt = Len(proxy.candidates)
      /\ proxy.err.kind # "nil" )
    => IF proxy.err.kind = "retryable"
       THEN /\ w.wroteHeader
            /\ w.status = proxy.resp[1].StatusCode
            /\ w.header = proxy.resp[1].Header
            /\ w.body = proxy.resp[1].Body
       ELSE /\ w.wroteHeader
            /\ w.status = 502
            /\ w.body = << proxy.err.msg >>

\* C3: an attempt that ends in a retryable failure has written nothing to
\* the client, and whenever an attempt is started or in flight nothing at
\* all has been written to the client.
C3_RetryOnlyBeforeWrite ==
    /\ proxy.pc \in {"loop", "dispatch"} => w = NewResponseWriter /\ wroteBy = 0
    /\ (proxy.pc \in {"loop", "exhausted"} /\ proxy.err.kind = "retryable")
          => w = NewResponseWriter /\ wroteBy = 0
    /\ \A k \in 1..Len(calls) : Rejected(k) => wroteBy # calls[k].attempt

\* C3 witness: two attempts ended in retryable failures and the client's
\* writer is still untouched.
C3_Witness ==
    /\ proxy.pc = "exhausted" /\ proxy.err.kind = "retryable"
    /\ Len(calls) = 2 /\ Rejected(1) /\ Rejected(2)
    /\ w = NewResponseWriter

\* C4 as stated: after a transport error of a candidate the handler goes on
\* to the next candidate, and when none remains the client gets a 502 whose
\* body is the error's message.
C4_TransportErrorRetried ==
    InLoop =>
        \A k \in 1..Len(calls) :
            calls[k].reply = "transport" =>
                IF calls[k].attempt < Len(proxy.candidates)
                THEN proxy.attempt > calls[k].attempt
                ELSE proxy.pc = "done" =>
                        /\ w.wroteHeader /\ w.status = 502
                        /\ w.body = << proxy.lastErr.msg >>

\* The step in which the copy of the upstream body fails, the status being
\* written already.
CopyFailed == proxy.pc = "copy" /\ proxy'.err.kind # "nil"

\* C5: a failure of the body copy after an attempt wrote the status ends the
\* request: the handler returns in that step without contacting a further
\* candidate, the usage record of that attempt (when recording is on) has
\* outcome failure, and nothing happens after the handler returned.
C5_CopyFailureEndsRequest ==
    [][ /\ CopyFailed =>
            /\ proxy'.pc = "done"
            /\ calls' = calls
            /\ wroteBy' = proxy.attempt
            /\ UsageEnabled(gw) =>
                /\ Len(usageRecords') = Len(usageRecords) + 1
                /\ usageRecords'[Len(usageRecords')].Attempt = proxy.attempt
                /\ usageRecords'[Len(usageRecords')].Outcome = "failure"
        /\ proxy.pc = "done" => calls' = calls /\ usageRecords' = usageRecords
      ]_vars

\* C5 witness: the first of two candidates wrote its status, the copy of its
\* body failed, and the request ended with the second candidate untouched.
C5_Witness ==
    /\ InLoop /\ proxy.pc = "done"
    /\ Len(proxy.candidates) = 2 /\ proxy.attempt = 1
    /\ wroteBy = 1 /\ proxy.err.kind = "error"
    /\ Len(calls) = 1
    /\ Len(usageRecords) = 1 /\ usageRecords[1].Outcome = "failure"

\* ------------------------------------------------------------------------
\* Properties of the usage records
\* ------------------------------------------------------------------------

\* The attempts that have ended: the current one is still running while the
\* handler is at the loop head, in httpClient.Do or in the body copy.
AttemptsEnded ==
    IF proxy.pc \in {"loop", "dispatch", "copy"} THEN proxy.attempt - 1 ELSE proxy.attempt

\* C6: with usage recording on, the records handed to persistence are one per
\* ended attempt (attempts against an unresolved provider included), in
\* order, numbered 1..n without gap or duplicate, and all carry one request
\* id: the trimmed X-Request-ID header when that is not empty, else the one id
\* generated for the request.
C6_OneRecordPerAttempt ==
    UsageEnabled(gw) =>
        /\ Len(usageRecords) = AttemptsEnded
        /\ \A i \in 1..Len(usageRecords) :
            /\ usageRecords[i].Attempt = i
            /\ InLoop => usageRecords[i].Provider = proxy.candidates[i].id
            /\ req.XRequestID = << " ", "r", "1", " " >>
                  => usageRecords[i].RequestID = "r1" /\ uuids = 0
            /\ req.XRequestID \in { << >>, << " " >> }
                  => usageRecords[i].RequestID = "uuid-1" /\ uuids = 1

\* C6 witness: an attempt against an unresolved provider and an attempt that
\* was sent upstream, both recorded under the generated request id.
C6_Witness ==
    /\ UsageEnabled(gw) /\ InLoop /\ proxy.pc = "done"
    /\ Len(usageRecords) = 2
    /\ usageRecords[1].Provider = "ghost" /\ usageRecords[2].Provider = "pA"
    /\ req.XRequestID = << " " >>
    /\ usageRecords[2].RequestID = "uuid-1"
    /\ Len(calls) = 1

\* C7 (as amended): a usage record has outcome success exactly when its
\* attempt wrote the upstream status to the client and the upstream body was
\* then copied to the client completely, the attempt returning no error;
\* every other record has outcome failure.
C7_OutcomeOfAttempt ==
    \A i \in 1..Len(usageRecords) :
        /\ usageRecords[i].Outcome \in {"success", "failure"}
        /\ usageRecords[i].Outcome = "success" <=>
              /\ wroteBy = usageRecords[i].Attempt
              /\ i = Len(usageRecords)
              /\ proxy.pc = "done" /\ proxy.err.kind = "nil"
              /\ w.status = proxy.resp[1].StatusCode
              /\ w.body = proxy.resp[1].Body

\* C7 witness: an attempt wrote its status and is recorded as a failure,
\* because the copy of the body failed.
C7_Witness ==
    /\ proxy.pc = "done"
    /\ Len(usageRecords) = 2
    /\ usageRecords[1].Outcome = "failure" /\ wroteBy # 1
    /\ usageRecords[2].Outcome = "failure" /\ wroteBy = 2
    /\ usageRecords[2].StatusCode = 200

\* C7 as stated: a usage record has outcome success exactly when its attempt
\* wrote the upstream status to the client and triggered no retry, that is,
\* did not end in a retryable failure.
C7_AsStated ==
    \A i \in 1..Len(usageRecords) :
        usageRecords[i].Outcome = "success" <=>
            /\ wroteBy = usageRecords[i].Attempt
            /\ ~(i = Len(usageRecords) /\ proxy.err.kind = "retryable")

\* ------------------------------------------------------------------------
\* Properties of routing and of the request checks
\* ------------------------------------------------------------------------

\* Whether a rule text is boolean true for a token count and a model name,
\* by the meaning of the text: a comparison of a model name with a number,
\* an unknown identifier, a number and a string are not boolean true.
RuleIsTrue(expression, tokens, model) ==
    CASE expression = "TokenCount > 1000" -> tokens > 1000
      [] expression = "Model == 'gpt'" -> model = "gpt"
      [] expression = "true" -> TRUE
      [] OTHER -> FALSE

\* C8: selectProviders returns the candidate list of the first rule, in
\* declaration order, that is boolean true for the environment, whatever
\* later rules say, and the model's default list in configured order when no
\* rule is; with the rule TokenCount > 1000 -> [pB] over the default [pA],
\* 1500 tokens select pB and 500 and exactly 1000 tokens select pA.
C8_FirstMatchingRule ==
    proxy.pc = "selected" =>
        LET m == gw.cfg.Models[1]
            hits == { i \in 1..Len(m.Rules) :
                        RuleIsTrue(m.Rules[i].Expression, proxy.tokenCount,
                                   proxy.modelName) }
        IN  /\ IF hits = {}
               THEN /\ Len(proxy.candidates) = Len(m.Providers)
                    /\ \A k \in 1..Len(m.Providers) :
                          proxy.candidates[k] = [id |-> m.Providers[k].ID,
                                                 model |-> m.Providers[k].Model]
               ELSE LET first == CHOOSE i \in hits : \A j \in hits : i <= j
                    IN  /\ Len(proxy.candidates) = Len(m.Rules[first].Providers)
                        /\ \A k \in 1..Len(m.Rules[first].Providers) :
                              proxy.candidates[k] =
                                [id |-> m.Rules[first].Providers[k].Provider,
                                 model |-> m.Rules[first].Providers[k].Model]
            /\ ( /\ m.Providers = << [ID |-> "pA", Model |-> ""] >>
                 /\ m.Rules = << [Expression |-> "TokenCount > 1000",
                                  Providers |-> << [Provider |-> "pB", Model |-> ""] >>] >> )
               => proxy.candidates =
                    IF proxy.tokenCount = 1500
                    THEN << [id |-> "pB", model |-> ""] >>
                    ELSE << [id |-> "pA", model |-> ""] >>

\* C8 witness: two rules are both true and the first one's list is returned.
C8_Witness ==
    /\ proxy.pc = "selected"
    /\ proxy.modelName = "gpt" /\ proxy.tokenCount = 1000
    /\ Len(gw.cfg.Models[1].Rules) = 2
    /\ gw.cfg.Models[1].Rules[1].Expression = "Model == 'gpt'"
    /\ gw.cfg.Models[1].Rules[2].Expression = "true"
    /\ proxy.candidates = << [id |-> "pB", model |-> "tm1"] >>

\* The request body is readable and names a model the gateway has no route
\* for.
ModelNotConfigured ==
    /\ ~req.bodyErr /\ req.body.valid /\ req.body.model # ""
    /\ req.body.model \notin DOMAIN gw.models

\* C9 as stated: for a model that is not configured, with a default provider
\* there is exactly one upstream call, to the default provider under the
\* requested model name, exactly one usage record (default provider,
\* requested model, attempt 1) whatever the outcome, and any forwarding error
\* reaches the client as a 502; without a default provider the client gets a
\* 404 and there is no upstream call and no usage record.
C9_DefaultProviderFallback ==
    (ModelNotConfigured /\ proxy.pc = "done") =>
        IF gw.defaultProvider # << >>
        THEN /\ Len(calls) = 1
             /\ calls[1].provider = gw.cfg.Default
             /\ calls[1].model = req.body.model
             /\ UsageEnabled(gw) =>
                   /\ Len(usageRecords) = 1
                   /\ usageRecords[1].Provider = gw.cfg.Default
                   /\ usageRecords[1].OriginalModel = req.body.model
                   /\ usageRecords[1].Attempt = 1
             /\ proxy.err.kind # "nil" => w.status = 502
        ELSE /\ w.status = 404
             /\ calls = << >>
             /\ usageRecords = << >>

\* C10: an unreadable body or a body without a non-empty top-level model is
\* answered 400 with no upstream call, no attempt and no usage record; an
\* empty candidate list is answered 502 "no provider available" with no
\* upstream call.
C10_RejectedBeforeForwarding ==
    proxy.pc # "start" =>
        /\ (req.bodyErr \/ ~req.body.valid \/ req.body.model = "") =>
              /\ proxy.pc = "done"
              /\ w.wroteHeader /\ w.status = 400
              /\ calls = << >> /\ usageRecords = << >>
              /\ proxy.attempt = 0
        /\ ( /\ ~req.bodyErr /\ req.body.valid /\ req.body.model \in DOMAIN gw.models
             /\ selectProviders(gw.models[req.body.model], req.body.model,
                                req.body.tokens, req.Path) = << >> ) =>
              /\ proxy.pc = "done"
              /\ w.wroteHeader /\ w.status = 502
              /\ w.body = << "no provider available" >>
              /\ calls = << >> /\ usageRecords = << >>

\* C10 witness: a rule with an empty provider list matched and the client
\* got the 502.
C10_Witness ==
    /\ proxy.pc = "done"
    /\ req.body.model = "gpt" /\ req.body.tokens = 1500
    /\ Len(gw.cfg.Models[1].Rules) = 2
    /\ proxy.candidates = << >>
    /\ w.status = 502 /\ w.body = << "no provider available" >>

\* ------------------------------------------------------------------------
\* Properties of the outbound request
\* ------------------------------------------------------------------------

\* The candidate of call k names an outbound model other than the requested
\* one.
Rewrites(k) ==
    /\ proxy.candidates[calls[k].attempt].model # ""
    /\ proxy.candidates[calls[k].attempt].model # proxy.modelName

\* C11 as stated: a call for a candidate with an outbound model other than
\* the requested one carries the request body with its top-level model set to
\* the candidate's model and every other field unchanged; a call for a
\* candidate without a model carries the request body unchanged under the
\* requested name; the usage record of the attempt has the outbound model as
\* model and the requested model as original_model.
C11_ModelRewrite ==
    InLoop =>
        \A k \in 1..Len(calls) :
            /\ IF Rewrites(k)
               THEN /\ calls[k].model = proxy.candidates[calls[k].attempt].model
                    /\ calls[k].body.model = calls[k].model
                    /\ calls[k].body.stream = req.body.stream
                    /\ calls[k].body.seed = req.body.seed
               ELSE /\ calls[k].model = req.body.model
                    /\ calls[k].body = req.body
            /\ (UsageEnabled(gw) /\ calls[k].attempt <= Len(usageRecords)) =>
                  /\ usageRecords[calls[k].attempt].Model = calls[k].model
                  /\ usageRecords[calls[k].attempt].OriginalModel = req.body.model

\* ------------------------------------------------------------------------
\* forwardRequest's outbound request for drawn incoming headers
\* ------------------------------------------------------------------------

\* The header entries an incoming request may carry.
HeaderEntries ==
    { << "Authorization", << "Bearer", " ", "k1" >> >>,
      << "Authorization", << "Bearer", " ", "k2" >> >>,
      << "X-Api-Key", << "k1" >> >>,
      << "Content-Length", << "99" >> >>,
      << "Host", << "evil.example" >> >>,
      << "Accept", << "json" >> >>,
      << "X-Trace", << "t1" >> >> }

\* Entries a provider's fixed header map may hold under the names of the
\* credential headers (none, one or the other).
CredentialHeaders ==
    { {},
      { << "Authorization", << "Bearer", " ", "fixedtok" >> >> },
      { << "x-api-key", << "fixedkey" >> >> } }

InitForward ==
    /\ gw \in { g \in Gateways : g.cfg.Default = "pA" /\ g.cfg.SaveUsage
                                  /\ g.cfg.Models[1].Providers = << >> }
    /\ req \in { [r EXCEPT !.Header = h] :
                    r \in { x \in Requests : ~x.bodyErr /\ x.XRequestID = << >>
                                               /\ x.body = MakeBody(TRUE, "gpt", FALSE, 500) },
                    h \in SUBSET HeaderEntries }
    /\ proxy \in { [NewProxy EXCEPT !.pc = "build", !.attempt = 1, !.modelName = "gpt",
                                    !.fwd = << [provider |->
                                                  [gw.providers[id] EXCEPT !.Headers = @ \cup fixed],
                                                model |-> "gpt", body |-> req.body] >>] :
                    id \in {"pA", "pB"}, fixed \in CredentialHeaders }
    /\ w = NewResponseWriter
    /\ usageRecords = << >>
    /\ uuids = 0
    /\ calls = << >>
    /\ wroteBy = 0
    /\ NoBackground

\* forwardRequest builds the outbound request (gateway.go:345-369).
BuildRequest ==
    /\ proxy.pc = "build"
    /\ calls' = Append(calls, Call(proxy.attempt, proxy.fwd[1].provider,
                                   proxy.fwd[1].model, proxy.fwd[1].body))
    /\ proxy' = [proxy EXCEPT !.pc = "built"]
    /\ UNCHANGED <<background, gw, req, w, usageRecords, uuids, wroteBy>>

NextForward == BuildRequest

SpecForward == InitForward /\ [][NextForward]_vars

\* The incoming headers whose values must not reach the upstream.
Sensitive(e) == e[1] \in {"Authorization", "X-Api-Key", "Host", "Content-Length"}

\* Two incoming header sets that differ at most in the sensitive headers.
SameButSensitive(h1, h2) ==
    { e \in h1 : ~Sensitive(e) } = { e \in h2 : ~Sensitive(e) }

\* The provider's fixed header map sets the key.
FixedByProvider(provider, key) == \E e \in provider.Headers : e[1] = key

\* The outbound request does not depend on the sensitive incoming headers
\* and carries none of their entries.
SensitiveHeadersDropped ==
    LET provider == proxy.fwd[1].provider
    IN  /\ \A h \in SUBSET HeaderEntries :
              SameButSensitive(h, req.Header) =>
                  calls[1].header = OutboundHeader(provider, h)
        /\ \A e \in req.Header : Sensitive(e) => e \notin calls[1].header
        /\ calls[1].host = UrlHost(provider.BaseURL)

\* C12 (as amended): the values of Authorization, x-api-key, Host and
\* Content-Length of the incoming request never reach the upstream, two
\* incoming requests that differ only in these headers give the same outbound
\* request for a provider, and every other incoming header is copied
\* unchanged unless the provider's fixed header map sets a header of that
\* name, which then replaces it.
C12_HeaderSanitization ==
    proxy.pc = "built" =>
        /\ SensitiveHeadersDropped
        /\ \A e \in req.Header :
              ~Sensitive(e) =>
                  IF FixedByProvider(proxy.fwd[1].provider, e[1])
                  THEN /\ e \notin calls[1].header
                       /\ \E f \in proxy.fwd[1].provider.Headers :
                             f[1] = e[1] /\ f \in calls[1].header
                  ELSE e \in calls[1].header

\* C12 witness: an incoming request with client credentials, Host and
\* Content-Length was built for the anthropic provider, whose fixed header
\* replaced the incoming X-Trace.
C12_Witness ==
    /\ proxy.pc = "built"
    /\ req.Header = HeaderEntries
    /\ calls[1].provider = "pB"
    /\ calls[1].header = { << "X-Api-Key", << "tokB" >> >>,
                           << "Accept", << "json" >> >>,
                           << "X-Trace", << "fixed" >> >> }

\* C12 as stated: as above, but every incoming header other than the four is
\* in the outbound request unchanged.
C12_AsStated ==
    proxy.pc = "built" =>
        /\ SensitiveHeadersDropped
        /\ \A e \in req.Header : ~Sensitive(e) => e \in calls[1].header

\* ------------------------------------------------------------------------
\* API-key authentication (internal/middleware/auth.go, Server.shouldSkipAuth)
\* ------------------------------------------------------------------------

\* NewAPIKeyAuth(keys): the set of the non-empty keys.
NewAPIKeyAuth(keys) == { keys[i] : i \in 1..Len(keys) } \ {""}

\* Header.Get(key): the value of the key, empty when the key is absent (the
\* headers drawn hold at most one value per key).
HeaderGet(h, key) ==
    IF \E e \in h : e[1] = key
    THEN (CHOOSE e \in h : e[1] = key)[2]
    ELSE << >>

\* strings.Fields on a value given as its words and blanks.
Fields(value) == SelectSeq(value, LAMBDA t : t # " ")

\* extractAPIKey(r).
extractAPIKey(r) ==
    LET auth == HeaderGet(r.Header, "Authorization")
        fields == Fields(auth)
    IN  IF auth # << >> /\ Len(fields) = 2 /\ ToLower(fields[1]) = "bearer"
        THEN fields[2]
        ELSE Chars2Str(HeaderGet(r.Header, "X-Api-Key"))

\* strings.HasPrefix(path, "/dashboard") on the paths of the model.
HasDashboardPrefix(path) == path \in {"/dashboard", "/dashboard/app.js"}

\* Mutant of shouldSkipAuth: the method is not looked at.
shouldSkipAuthAnyMethod(r) ==
    \/ r.Path = "/healthz"
    \/ HasDashboardPrefix(r.Path)
    \/ r.Path \in {"/favicon.ico", "/robots.txt", "/sitemap.xml"}

\* Server.shouldSkipAuth(r).
shouldSkipAuth(r) ==
    /\ r.Method = "GET"
    /\ \/ r.Path = "/healthz"
       \/ HasDashboardPrefix(r.Path)
       \/ r.Path \in {"/favicon.ico", "/robots.txt", "/sitemap.xml"}

\* The body json.NewEncoder(w).Encode(errorResponse{Error: msg}) writes.
ErrorResponse(msg) == "{\"error\":\"" \o msg \o "\"}\n"

\* writeAuthError(w, status, msg).
writeAuthError(rw, status, msg) ==
    Write(WriteHeader(SetHeader(rw, {"Content-Type: application/json"}), status),
          << ErrorResponse(msg) >>)

\* Configured api_keys lists.
KeyLists == { << >>, << "" >>, << "k1" >>, << "", "k1" >>, << "k1", "k2" >> }

AuthPaths ==
    {"/healthz", "/dashboard", "/dashboard/app.js", "/robots.txt",
     "/v1/chat/completions", "/usage"}

AuthorizationValues ==
    { << "Bearer", " ", "k1" >>, << "bearer", " ", "k2" >>, << "Bearer", " ", "bad" >>,
      << "Basic", " ", "k1" >>, << "Bearer", " ", "k1", " ", "extra" >>, << "k1" >> }

\* Incoming headers with at most one Authorization and one x-api-key value.
AuthHeaders ==
    { a \cup x :
        a \in {{}} \cup { {<< "Authorization", v >>} : v \in AuthorizationValues },
        x \in {{}} \cup { {<< "X-Api-Key", << k >> >>} : k \in {"k1", "bad"} } }

InitAuth ==
    /\ gw \in { New([MakeConfig(<< >>, "", FALSE) EXCEPT !.APIKeys = ks], FALSE) :
                 ks \in KeyLists }
    /\ req \in [bodyErr : {FALSE}, body : {MakeBody(TRUE, "gpt", FALSE, 500)},
                XRequestID : {<< >>}, Path : AuthPaths, Method : {"GET", "POST"},
                Header : AuthHeaders]
    /\ proxy = [NewProxy EXCEPT !.pc = "auth"]
    /\ w = NewResponseWriter
    /\ usageRecords = << >>
    /\ uuids = 0
    /\ calls = << >>
    /\ wroteBy = 0
    /\ NoBackground

\* The handler MiddlewareWithSkipper(s.shouldSkipAuth) wraps around the mux:
\* "handler" is next.ServeHTTP(w, r).
Authenticate ==
    /\ proxy.pc = "auth"
    /\ LET keys == NewAPIKeyAuth(gw.cfg.APIKeys)
           key == extractAPIKey(req)
       IN  IF keys = {} \/ shouldSkipAuth(req)
           THEN /\ proxy' = [proxy EXCEPT !.pc = "handler"]
                /\ w' = w
           ELSE IF key = ""
                THEN /\ proxy' = [proxy EXCEPT !.pc = "rejected"]
                     /\ w' = writeAuthError(w, 401, "missing api key")
                ELSE IF key \notin keys
                     THEN /\ proxy' = [proxy EXCEPT !.pc = "rejected"]
                          /\ w' = writeAuthError(w, 401, "invalid api key")
                     ELSE /\ proxy' = [proxy EXCEPT !.pc = "handler"]
                          /\ w' = w
    /\ UNCHANGED <<background, gw, req, usageRecords, uuids, calls, wroteBy>>

NextAuth == Authenticate

SpecAuth == InitAuth /\ [][NextAuth]_vars

\* The allow-list: the configured keys, an empty string not being a key.
AllowList == { gw.cfg.APIKeys[i] : i \in 1..Len(gw.cfg.APIKeys) } \ {""}

\* The bearer token of the request's Authorization header, by the header's
\* text; "" when the header is absent or is not "Bearer <token>".
BearerToken ==
    CASE << "Authorization", << "Bearer", " ", "k1" >> >> \in req.Header -> "k1"
      [] << "Authorization", << "bearer", " ", "k2" >> >> \in req.Header -> "k2"
      [] << "Authorization", << "Bearer", " ", "bad" >> >> \in req.Header -> "bad"
      [] OTHER -> ""

\* The request's x-api-key value, "" when absent.
XApiKey ==
    CASE << "X-Api-Key", << "k1" >> >> \in req.Header -> "k1"
      [] << "X-Api-Key", << "bad" >> >> \in req.Header -> "bad"
      [] OTHER -> ""

\* The request is in the skip list: a GET of /healthz, of the dashboard or of
\* a common static path.
InSkipList ==
    /\ req.Method = "GET"
    /\ req.Path \in {"/healthz", "/dashboard", "/dashboard/app.js", "/robots.txt"}

Rejected401(msg) ==
    /\ proxy.pc = "rejected"
    /\ w.wroteHeader /\ w.status = 401
    /\ w.body = << "{\"error\":\"" \o msg \o "\"}\n" >>

\* C13: with a non-empty allow-list (the configured keys, empty strings not
\* counting), a request outside the skip list reaches a handler only if its
\* bearer token or its x-api-key value is in the allow-list; it is answered
\* 401 "missing api key" when it supplies neither, and 401 "invalid api key"
\* when what it supplies is not in the list.  With an empty allow-list every
\* request reaches a handler.
C13_ApiKeyAuth ==
    proxy.pc # "auth" =>
        IF AllowList = {}
        THEN proxy.pc = "handler"
        ELSE ~InSkipList =>
               /\ proxy.pc = "handler" => BearerToken \in AllowList \/ XApiKey \in AllowList
               /\ (BearerToken = "" /\ XApiKey = "") => Rejected401("missing api key")
               /\ ( /\ BearerToken # "" \/ XApiKey # ""
                    /\ BearerToken \notin AllowList /\ XApiKey \notin AllowList )
                  => Rejected401("invalid api key")

\* C13 witness: a POST with a bearer token outside the allow-list was
\* answered 401 "invalid api key".
C13_Witness ==
    /\ Rejected401("invalid api key")
    /\ gw.cfg.APIKeys = << "k1", "k2" >>
    /\ req.Method = "POST" /\ req.Path = "/v1/chat/completions"
    /\ req.Header = { << "Authorization", << "Bearer", " ", "bad" >> >> }


\* ------------------------------------------------------------------------
\* The usage store (internal/storage/storage.go, the version from line 493)
\* ------------------------------------------------------------------------

\* The clock counts half seconds, so that two instants may share a second.
Second == 2

Day == 86400 * Second

\* time.Time.IsZero: the model's clock starts after instant 0.
IsZero(t) == t = 0

\* The storage.UsageRecord of a record of prepareUsageRecord: CreatedAt is
\* the instant given, the response fields are as the attempt measured them.
UsageRecord(rec, createdAt, responseTokens, duration, firstTokenLatency) ==
    [ID |-> 0, CreatedAt |-> createdAt, Path |-> rec.Path, Provider |-> rec.Provider,
     Model |-> rec.Model, OriginalModel |-> rec.OriginalModel,
     RequestID |-> rec.RequestID, Attempt |-> rec.Attempt,
     RequestTokens |-> rec.RequestTokens, ResponseTokens |-> responseTokens,
     StatusCode |-> rec.StatusCode, Outcome |-> rec.Outcome,
     Duration |-> duration, FirstTokenLatency |-> firstTokenLatency]

\* sqliteStore.RecordUsage: the INSERT names no id, so AUTOINCREMENT gives
\* the row the next id; a failed ExecContext inserts nothing.  created_at
\* holds CreatedAt.Format(time.RFC3339Nano), a text that names the instant
\* to the nanosecond: the row keeps the instant.  The durations are kept as
\* their int64 nanosecond counts.
sqliteRecordUsage(st, record, t, fails) ==
    IF fails
    THEN st
    ELSE LET createdAt == IF IsZero(record.CreatedAt) THEN t ELSE record.CreatedAt
             attempt == IF record.Attempt <= 0 THEN 1 ELSE record.Attempt
             row == [record EXCEPT !.ID = st.nextID + 1, !.CreatedAt = createdAt,
                                   !.Attempt = attempt]
         IN  [st EXCEPT !.records = Append(@, row), !.nextID = @ + 1]

\* fileStore.RecordUsage: the record joins f.records before the line is
\* written, so it stays in memory when the write fails.
fileRecordUsage(st, record, t, fails) ==
    LET id == IF record.ID = 0 THEN st.nextID + 1 ELSE record.ID
        createdAt == IF IsZero(record.CreatedAt) THEN t ELSE record.CreatedAt
        rec == [record EXCEPT !.ID = id, !.CreatedAt = createdAt]
    IN  [st EXCEPT !.records = Append(@, rec),
                   !.nextID = IF record.ID = 0 THEN @ + 1 ELSE @]

\* Store.RecordUsage at instant t; fails: the write of the row or line fails.
RecordUsage(st, record, t, fails) ==
    IF st.kind = "sqlite" THEN sqliteRecordUsage(st, record, t, fails)
                          ELSE fileRecordUsage(st, record, t, fails)

\* ------------------------------------------------------------------------
\* The goroutines of saveUsageRecord (internal/gateway/usage.go)
\* ------------------------------------------------------------------------

\* "5*time.Second"
PersistTimeout == 5 * Second

\* context.WithoutCancel(parent): the parent's values without its
\* cancellation; what remains behaves as context.Background().
WithoutCancel(parent) == "background"

\* Mutant of baseContext: the goroutine's context descends from r.Context().
baseContextOfRequest(ctx) == ctx

\* "base := context.Background(); if ctx != nil { base =
\* context.WithoutCancel(ctx) }": ctx is r.Context(), never nil.
baseContext(ctx) == WithoutCancel(ctx)

\* context.WithTimeout(parent, d) made at instant t.
WithTimeout(parent, t, d) == [parent |-> parent, deadline |-> t + d]

\* ctx.Err() at instant t, requestCtx being the state of r.Context().
ContextErr(ctx, requestCtx, t) ==
    IF ctx.parent = "request" /\ requestCtx = "canceled" THEN "context canceled"
    ELSE IF t >= ctx.deadline THEN "context deadline exceeded"
    ELSE ""

\* What RecordUsage may return to the goroutine: sqliteStore runs
\* ExecContext under ctx, fileStore ignores its context.
RecordUsageErrors(st, ctxErr) ==
    IF st.kind = "sqlite" /\ ctxErr # "" THEN {ctxErr} ELSE {"", "io error"}

\* Mutant of afterRecordUsage: a failed RecordUsage is tried again.
retryRecordUsage(task, err) ==
    IF err # "" /\ task.calls < 2 THEN [task EXCEPT !.err = err]
                ELSE [task EXCEPT !.pc = "done", !.err = err]

\* "if err := ...RecordUsage(...); err != nil { log.Warningf(...) }": the
\* goroutine ends whatever RecordUsage returned.
afterRecordUsage(task, err) == [task EXCEPT !.pc = "done", !.err = err]

\* The net/http server cancels r.Context() when the client's connection
\* closes and when the handler returns.
RequestContextCanceled ==
    /\ reqCtx = "active"
    /\ reqCtx' = "canceled"
    /\ UNCHANGED <<gw, req, proxy, w, usageRecords, uuids, calls, wroteBy>>
    /\ UNCHANGED <<tasks, store, now, cleanup, ret>>

\* The goroutine of the next record handed over starts: it builds its
\* context.  CreatedAt, which prepareUsageRecord took from the clock, is read
\* here, Proxy's steps carrying no clock.
StartTask ==
    /\ Len(tasks) < Len(usageRecords)
    /\ tasks' = Append(tasks,
                  [pc |-> "RecordUsage",
                   rec |-> UsageRecord(usageRecords[Len(tasks) + 1], now, 0, 0, 0),
                   ctx |-> WithTimeout(baseContext("request"), now, PersistTimeout),
                   started |-> now, requestCtx |-> reqCtx, err |-> "", calls |-> 0])
    /\ UNCHANGED <<gw, req, proxy, w, usageRecords, uuids, calls, wroteBy>>
    /\ UNCHANGED <<reqCtx, store, now, cleanup, ret>>

\* usageStore.RecordUsage(ctxWithTimeout, rec) returns in goroutine i.
RecordUsageReturns ==
    \E i \in 1..Len(tasks) :
        /\ tasks[i].pc = "RecordUsage"
        /\ \E err \in RecordUsageErrors(store, ContextErr(tasks[i].ctx, reqCtx, now)) :
            /\ store' = RecordUsage(store, tasks[i].rec, now, err # "")
            /\ tasks' = [tasks EXCEPT ![i] =
                            afterRecordUsage([@ EXCEPT !.calls = @ + 1], err)]
        /\ UNCHANGED <<gw, req, proxy, w, usageRecords, uuids, calls, wroteBy>>
        /\ UNCHANGED <<reqCtx, now, cleanup, ret>>

\* Time passes, up to the deadline of a goroutine that is inside RecordUsage
\* (no other step of this specification reads the clock).
DeadlinePasses ==
    /\ \E i \in 1..Len(tasks) : /\ tasks[i].pc = "RecordUsage"
                                 /\ now < tasks[i].ctx.deadline
                                 /\ now' = tasks[i].ctx.deadline
    /\ UNCHANGED <<gw, req, proxy, w, usageRecords, uuids, calls, wroteBy>>
    /\ UNCHANGED <<reqCtx, tasks, store, cleanup, ret>>

\* One request to a gateway with two usable candidates and usage recording
\* on, over either kind of store.
InitPersist ==
    /\ gw = New(MakeConfig(<< [Name |-> "gpt",
                               Providers |-> << [ID |-> "pA", Model |-> ""],
                                                [ID |-> "pB", Model |-> "tm"] >>,
                               Rules |-> << >>] >>, "pA", TRUE), TRUE)
    /\ req \in { r \in Requests : /\ ~r.bodyErr
                                   /\ r.XRequestID = << >>
                                   /\ r.body = MakeBody(TRUE, "gpt", FALSE, 500) }
    /\ proxy = NewProxy
    /\ w = NewResponseWriter
    /\ usageRecords = << >>
    /\ uuids = 0
    /\ calls = << >>
    /\ wroteBy = 0
    /\ reqCtx = "active"
    /\ tasks = << >>
    /\ store \in {NewStore("sqlite"), NewStore("file")}
    /\ now = 1
    /\ cleanup = [pc |-> "off"]
    /\ ret = << >>

NextPersist ==
    \/ ProxyBegin
    \/ TryCandidate
    \/ UpstreamTransportError
    \/ UpstreamResponds
    \/ CopyBodyOk
    \/ CopyBodyFails
    \/ Exhausted
    \/ RequestContextCanceled
    \/ StartTask
    \/ RecordUsageReturns
    \/ DeadlinePasses

SpecPersist == InitPersist /\ [][NextPersist]_vars


\* The steps of Proxy and of its forwardRequest calls.
ProxyStep ==
    \/ ProxyBegin
    \/ TryCandidate
    \/ UpstreamTransportError
    \/ UpstreamResponds
    \/ CopyBodyOk
    \/ CopyBodyFails
    \/ Exhausted

\* Goroutine i's record is among the store's records.
Stored(i) ==
    \E k \in 1..Len(store.records) :
        [store.records[k] EXCEPT !.ID = 0] = [tasks[i].rec EXCEPT !.ID = 0]

datetime(t) == t - (t % Second)

\* time.Time.After
After(t, u) == t > u

\* "limit := query.Limit; if limit <= 0 { limit = 100 }"
effectiveLimit(query) == IF query.Limit <= 0 THEN 100 ELSE query.Limit

\* records[:limit] when there are more than limit, and SQL's LIMIT.
Take(records, limit) ==
    IF Len(records) > limit THEN SubSeq(records, 1, limit) ELSE records

\* Mutant of defaultOutcome: the outcome is always read off the status code.
outcomeOfStatus(outcome, status) ==
    IF status >= 200 /\ status < 400 THEN "success"
    ELSE IF status # 0 THEN "failure" ELSE outcome

\* "if record.Outcome == "" { ... }" of QueryUsage and loadUsageRecords.
defaultOutcome(outcome, status) ==
    IF outcome = "" THEN outcomeOfStatus(outcome, status) ELSE outcome

\* One row as sqliteStore.QueryUsage scans it: created_at is parsed back with
\* time.Parse(time.RFC3339Nano) to the instant it names, the nanosecond
\* counts become Durations, attempt and outcome get their defaults.
scanRow(row) ==
    [row EXCEPT !.Attempt = IF @ <= 0 THEN 1 ELSE @,
                !.Outcome = defaultOutcome(@, row.StatusCode)]

\* "ORDER BY datetime(created_at) DESC, id DESC": row a comes before row b.
sqliteBefore(a, b) ==
    \/ datetime(a.CreatedAt) > datetime(b.CreatedAt)
    \/ datetime(a.CreatedAt) = datetime(b.CreatedAt) /\ a.ID > b.ID

RECURSIVE sqliteOrderBy(_)
sqliteOrderBy(rows) ==
    IF rows = {} THEN << >>
    ELSE LET first == CHOOSE a \in rows : \A b \in rows \ {a} : sqliteBefore(a, b)
         IN  << first >> \o sqliteOrderBy(rows \ {first})

\* The filters of the specifications carry no outer blanks (handleUsage trims
\* request_id), so strings.TrimSpace leaves them as they are.
sqliteQueryUsage(st, query) ==
    LET where == { st.records[i] : i \in { j \in 1..Len(st.records) :
                       query.RequestID = "" \/ st.records[j].RequestID = query.RequestID } }
        rows == Take(sqliteOrderBy(where), effectiveLimit(query))
    IN  { [i \in 1..Len(rows) |-> scanRow(rows[i])] }

\* The orders sort.Slice may leave records in under less(i, j) =
\* records[i].CreatedAt.After(records[j].CreatedAt): the sort is not stable,
\* so records of one instant end in any order.
sortSliceResults(records) ==
    LET n == Len(records)
        perms == { p \in [1..n -> 1..n] : \A i, j \in 1..n : i # j => p[i] # p[j] }
        sorted(r) == \A i, j \in 1..n : i < j => ~After(r[j].CreatedAt, r[i].CreatedAt)
    IN  { r \in { [i \in 1..n |-> records[p[i]]] : p \in perms } : sorted(r) }

fileQueryUsage(st, query) ==
    LET records == SelectSeq(st.records,
                     LAMBDA rec : ~(query.RequestID # "" /\ rec.RequestID # query.RequestID))
    IN  { Take(r, effectiveLimit(query)) : r \in sortSliceResults(records) }

\* Store.QueryUsage: the results the call may return.
QueryUsage(st, query) ==
    IF st.kind = "sqlite" THEN sqliteQueryUsage(st, query) ELSE fileQueryUsage(st, query)

\* "cutoffTime := time.Now().AddDate(0, 0, -retentionDays)", a day being 24
\* hours (no change of the zone offset in between).
cutoffTime(t, retentionDays) == t - retentionDays * Day

\* Mutant of sqliteCleanupOldRecords: nothing is deleted.
cleanupNothing(st, retentionDays, t, fails) ==
    [store |-> st, removed |-> 0, err |-> IF fails THEN "io error" ELSE ""]

\* "DELETE FROM usage_records WHERE datetime(created_at) < datetime(?)";
\* a failed ExecContext deletes nothing.
sqliteCleanupOldRecords(st, retentionDays, t, fails) ==
    IF fails
    THEN cleanupNothing(st, retentionDays, t, fails)
    ELSE LET cutoff == cutoffTime(t, retentionDays)
             deleted(row) == datetime(row.CreatedAt) < datetime(cutoff)
             kept == SelectSeq(st.records, LAMBDA row : ~deleted(row))
         IN  [store |-> [st EXCEPT !.records = kept],
              removed |-> Len(st.records) - Len(kept), err |-> ""]

\* fileStore.CleanupOldRecords: f.records is replaced before the file is
\* rewritten; when the rewrite fails the call returns 0 and the error.
fileCleanupOldRecords(st, retentionDays, t, fails) ==
    LET cutoff == cutoffTime(t, retentionDays)
        kept == SelectSeq(st.records, LAMBDA rec : After(rec.CreatedAt, cutoff))
    IN  [store |-> [st EXCEPT !.records = kept],
         removed |-> IF fails THEN 0 ELSE Len(st.records) - Len(kept),
         err |-> IF fails THEN "io error" ELSE ""]

\* Store.CleanupOldRecords at instant t: the store after it and what it returns.
CleanupOldRecords(st, retentionDays, t, fails) ==
    IF st.kind = "sqlite" THEN sqliteCleanupOldRecords(st, retentionDays, t, fails)
                          ELSE fileCleanupOldRecords(st, retentionDays, t, fails)


\* ------------------------------------------------------------------------
\* The cleanup task of the server (internal/server/server.go)
\* ------------------------------------------------------------------------

MaxTicks == 2

Hour == 3600 * Second

\* A record as Proxy hands it over, completed to a storage.UsageRecord.
InputRecord(requestID, attempt, status, outcome, createdAt) ==
    UsageRecord([Provider |-> "pA", Model |-> "gpt", OriginalModel |-> "gpt",
                 Path |-> "/v1/chat/completions", RequestTokens |-> 500,
                 StatusCode |-> status, RequestID |-> requestID,
                 Attempt |-> attempt, Outcome |-> outcome],
                createdAt, 11, 2 * Second, 1)

\* The configuration fields Server.Run and startCleanupTask read.
ServerConfig(saveUsage, cleanupEnabled, retentionDays, intervalHours) ==
    MakeConfig(<< >>, "", saveUsage)
        @@ [CleanupEnabled |-> cleanupEnabled, RetentionDays |-> retentionDays,
            CleanupIntervalHours |-> intervalHours]

\* "if retentionDays <= 0 { retentionDays = 3 }"
retentionOf(cfg) == IF cfg.RetentionDays <= 0 THEN 3 ELSE cfg.RetentionDays

\* Mutant of intervalOf: the configured number of hours as it is.
intervalConfigured(cfg) == cfg.CleanupIntervalHours * Hour

\* "if intervalHours <= 0 { intervalHours = 6 }; interval :=
\* time.Duration(intervalHours) * time.Hour"
intervalOf(cfg) ==
    IF cfg.CleanupIntervalHours <= 0 THEN 6 * Hour ELSE intervalConfigured(cfg)

\* Server.Run up to ListenAndServe: the cleanup goroutine is started when
\* usage recording and cleanup are on and there is a store.
ServerRun ==
    /\ cleanup.pc = "off"
    /\ cleanup' = [cleanup EXCEPT !.pc =
                      IF gw.cfg.SaveUsage /\ gw.usageStore /\ gw.cfg.CleanupEnabled
                      THEN "start" ELSE "none"]
    /\ UNCHANGED <<gw, req, proxy, w, usageRecords, uuids, calls, wroteBy>>
    /\ UNCHANGED <<reqCtx, tasks, store, now, ret>>

\* startCleanupTask up to its first performCleanup: the ticker is made.
StartCleanupTask ==
    /\ cleanup.pc = "start"
    /\ cleanup' = [cleanup EXCEPT !.pc = "performCleanup",
                                  !.retentionDays = retentionOf(gw.cfg),
                                  !.interval = intervalOf(gw.cfg),
                                  !.nextTick = now + intervalOf(gw.cfg)]
    /\ UNCHANGED <<gw, req, proxy, w, usageRecords, uuids, calls, wroteBy>>
    /\ UNCHANGED <<reqCtx, tasks, store, now, ret>>

\* performCleanup: one CleanupOldRecords call under the task's context, its
\* error only logged.  Under a cancelled context ExecContext fails.
PerformCleanup ==
    /\ cleanup.pc = "performCleanup"
    /\ \E fails \in IF store.kind = "sqlite" /\ cleanup.ctx = "canceled"
                    THEN {TRUE} ELSE BOOLEAN :
        LET result == CleanupOldRecords(store, cleanup.retentionDays, now, fails)
        IN  /\ store' = result.store
            /\ ret' = << [op |-> "CleanupOldRecords", retentionDays |-> cleanup.retentionDays,
                          at |-> now, before |-> store.records,
                          removed |-> result.removed, err |-> result.err] >>
    /\ cleanup' = [cleanup EXCEPT !.pc = "select", !.runs = @ + 1,
                                  !.afterCancel = @ \/ cleanup.ctx = "canceled"]
    /\ UNCHANGED <<gw, req, proxy, w, usageRecords, uuids, calls, wroteBy>>
    /\ UNCHANGED <<reqCtx, tasks, now>>

\* The ticker's period ends: the clock stands at the tick's instant and the
\* tick waits in ticker.C, whose buffer holds one tick (a tick that finds
\* another one waiting is dropped).
TickerFires ==
    /\ cleanup.pc \in {"performCleanup", "select"}
    /\ cleanup.fired < MaxTicks
    /\ now' = cleanup.nextTick
    /\ cleanup' = [cleanup EXCEPT !.fired = @ + 1,
                                  !.nextTick = @ + cleanup.interval,
                                  !.tick = TRUE,
                                  !.dropped = IF cleanup.tick THEN @ + 1 ELSE @]
    /\ UNCHANGED <<gw, req, proxy, w, usageRecords, uuids, calls, wroteBy>>
    /\ UNCHANGED <<reqCtx, tasks, store, ret>>

\* "case <-ticker.C": the select takes the waiting tick.
ReceiveTick ==
    /\ cleanup.pc = "select"
    /\ cleanup.tick
    /\ cleanup' = [cleanup EXCEPT !.pc = "performCleanup", !.tick = FALSE,
                                  !.received = @ + 1]
    /\ UNCHANGED <<gw, req, proxy, w, usageRecords, uuids, calls, wroteBy>>
    /\ UNCHANGED <<reqCtx, tasks, store, now, ret>>

\* "case <-ctx.Done(): return"; the deferred ticker.Stop() runs.
CleanupStops ==
    /\ cleanup.pc = "select"
    /\ cleanup.ctx = "canceled"
    /\ cleanup' = [cleanup EXCEPT !.pc = "stopped"]
    /\ UNCHANGED <<gw, req, proxy, w, usageRecords, uuids, calls, wroteBy>>
    /\ UNCHANGED <<reqCtx, tasks, store, now, ret>>

\* The context given to Run is cancelled (the process shuts down).
Shutdown ==
    /\ cleanup.ctx = "active"
    /\ cleanup' = [cleanup EXCEPT !.ctx = "canceled"]
    /\ UNCHANGED <<gw, req, proxy, w, usageRecords, uuids, calls, wroteBy>>
    /\ UNCHANGED <<reqCtx, tasks, store, now, ret>>

\* The instant the server starts at.
StartTime == 1 + 4 * Day

\* The instants of the records a store holds when the server starts: four
\* days back, then at, half a second before and half a second after the
\* instants three days and one day back, and the start itself.
CleanupInstants ==
    << 1,
       StartTime - 3 * Day - 1, StartTime - 3 * Day, StartTime - 3 * Day + 1,
       StartTime - Day - 1, StartTime - Day, StartTime - Day + 1,
       StartTime >>

CleanupStore(kind) ==
    [kind |-> kind,
     records |-> [i \in 1..Len(CleanupInstants) |->
                    [InputRecord("r1", 1, 200, "success", CleanupInstants[i])
                        EXCEPT !.ID = i]],
     nextID |-> Len(CleanupInstants)]

InitCleanup ==
    /\ \E su, ce, us \in BOOLEAN : \E rd, ih \in {0, 1} :
          gw = New(ServerConfig(su, ce, rd, ih), us)
    /\ req \in { r \in Requests : /\ ~r.bodyErr
                                   /\ r.XRequestID = << >>
                                   /\ r.body = MakeBody(TRUE, "gpt", FALSE, 500) }
    /\ proxy = NewProxy
    /\ w = NewResponseWriter
    /\ usageRecords = << >>
    /\ uuids = 0
    /\ calls = << >>
    /\ wroteBy = 0
    /\ reqCtx = "active"
    /\ tasks = << >>
    /\ store \in {CleanupStore("sqlite"), CleanupStore("file")}
    /\ now = StartTime
    /\ cleanup = [pc |-> "off", ctx |-> "active", retentionDays |-> 0, interval |-> 0,
                  nextTick |-> 0, tick |-> FALSE, fired |-> 0, received |-> 0,
                  dropped |-> 0, runs |-> 0, afterCancel |-> FALSE]
    /\ ret = << >>

\* The steps of the cleanup goroutine.
CleanupTask ==
    \/ StartCleanupTask
    \/ PerformCleanup
    \/ ReceiveTick
    \/ CleanupStops

NextCleanup ==
    \/ ServerRun
    \/ StartCleanupTask
    \/ PerformCleanup
    \/ TickerFires
    \/ ReceiveTick
    \/ CleanupStops
    \/ Shutdown

\* The goroutine keeps being scheduled, Server.Run gets through from its setup, and a
\* select that is offered ctx.Done() again and again takes it in the end
\* (select picks among its ready cases at random).
SpecCleanup ==
    /\ InitCleanup
    /\ [][NextCleanup]_vars
    /\ WF_vars(ServerRun)
    /\ WF_vars(CleanupTask)
    /\ SF_vars(CleanupStops)


\* The cleanup goroutine has made its ticker.
CleanupStarted == cleanup.pc \in {"performCleanup", "select", "stopped"}

\* C16: with usage recording and cleanup on (and only then) the cleanup task
\* runs; it performs one cleanup before it waits for anything and then one for
\* each tick it takes from the ticker, whose period is the configured number of
\* hours, 6 hours when that is <= 0; once the context of Run is cancelled the
\* task eventually stops, and a stopped task performs no cleanup.
C16_CleanupSchedule ==
    /\ [](cleanup.pc # "off" =>
            (cleanup.pc # "none" <=>
                gw.cfg.SaveUsage /\ gw.usageStore /\ gw.cfg.CleanupEnabled))
    /\ [](CleanupStarted =>
            /\ cleanup.interval = IF gw.cfg.CleanupIntervalHours <= 0
                                  THEN 6 * 3600 * Second
                                  ELSE gw.cfg.CleanupIntervalHours * 3600 * Second
            /\ cleanup.nextTick = StartTime + (cleanup.fired + 1) * cleanup.interval
            /\ now = StartTime + cleanup.fired * cleanup.interval
            /\ cleanup.fired = cleanup.received + cleanup.dropped
                                 + (IF cleanup.tick THEN 1 ELSE 0)
            /\ cleanup.runs = IF cleanup.pc = "performCleanup"
                              THEN cleanup.received ELSE 1 + cleanup.received)
    /\ [][cleanup.pc = "stopped" => UNCHANGED <<cleanup, store, now>>]_vars
    /\ (cleanup.ctx = "canceled" /\ cleanup.pc \notin {"off", "none"})
          ~> (cleanup.pc = "stopped")

\* With no interval configured the task has cleaned at startup and at the
\* ticks 6 and 12 hours later, and has stopped after the shutdown.
C16_Witness ==
    /\ gw.cfg.CleanupIntervalHours = 0
    /\ cleanup.pc = "stopped"
    /\ cleanup.runs = 3 /\ cleanup.received = 2 /\ cleanup.dropped = 0
    /\ now = StartTime + 12 * Hour


\* The store holds the record as it is.
Present(rec) == \E k \in 1..Len(store.records) : store.records[k] = rec

\* performCleanup has called CleanupOldRecords.
Cleaned == ret # << >> /\ ret[1].op = "CleanupOldRecords"

MaxRecords == 2

MaxClockSteps == 1

\* The records handed to RecordUsage at instant t: made by
\* prepareUsageRecord now or half a second ago, with the outcome Proxy set.
StoreInputs(t) ==
    { InputRecord(in[1], in[2], in[3], in[4], c) :
        in \in { << "r1", 1, 503, "failure" >>, << "r1", 2, 200, "success" >>,
                 << "r2", 1, 200, "failure" >> },
        c \in {t, t - 1} \ {0} }

\* storage.UsageQuery values: handleUsage passes a positive limit and a
\* trimmed request id; other callers may pass any limit.
UsageQueries == [Limit : {0, 1}, RequestID : {"", "r1"}]

\* usageStore.RecordUsage(ctx, rec) is called and returns.  usageRecords
\* keeps the records the store took, in order: the store numbers them 1, 2, ...
CallRecordUsage ==
    /\ store.nextID < MaxRecords
    /\ \E rec \in StoreInputs(now), fails \in BOOLEAN :
        /\ store' = RecordUsage(store, rec, now, fails)
        /\ usageRecords' = IF store'.nextID > store.nextID
                           THEN Append(usageRecords, rec) ELSE usageRecords
        /\ ret' = << [op |-> "RecordUsage", err |-> IF fails THEN "io error" ELSE ""] >>
    /\ UNCHANGED <<gw, req, proxy, w, uuids, calls, wroteBy>>
    /\ UNCHANGED <<reqCtx, tasks, now, cleanup>>

\* s.usage.QueryUsage(ctx, query) is called and returns.
CallQueryUsage ==
    /\ \E query \in UsageQueries : \E records \in QueryUsage(store, query) :
        ret' = << [op |-> "QueryUsage", query |-> query, records |-> records] >>
    /\ UNCHANGED <<gw, req, proxy, w, usageRecords, uuids, calls, wroteBy>>
    /\ UNCHANGED <<reqCtx, tasks, store, now, cleanup>>

\* s.usage.CleanupOldRecords(ctx, 1) is called and returns.
CallCleanupOldRecords ==
    /\ \E fails \in BOOLEAN :
        LET result == CleanupOldRecords(store, 1, now, fails)
        IN  /\ store' = result.store
            /\ ret' = << [op |-> "CleanupOldRecords", retentionDays |-> 1,
                          at |-> now, before |-> store.records,
                          removed |-> result.removed, err |-> result.err] >>
    /\ UNCHANGED <<gw, req, proxy, w, usageRecords, uuids, calls, wroteBy>>
    /\ UNCHANGED <<reqCtx, tasks, now, cleanup>>

\* Half a second passes, or (once) a day.
ClockAdvances ==
    /\ \/ now % Day < Second + 1 + MaxClockSteps /\ now' = now + 1
       \/ now < Day /\ now' = now + Day
    /\ UNCHANGED <<gw, req, proxy, w, usageRecords, uuids, calls, wroteBy>>
    /\ UNCHANGED <<reqCtx, tasks, store, cleanup, ret>>

\* The store is new; the clock stands half a second into a second.
InitStore ==
    /\ gw = New(MakeConfig(<< >>, "", TRUE), TRUE)
    /\ req \in { r \in Requests : /\ ~r.bodyErr
                                   /\ r.XRequestID = << >>
                                   /\ r.body = MakeBody(TRUE, "gpt", FALSE, 500) }
    /\ proxy = NewProxy
    /\ w = NewResponseWriter
    /\ usageRecords = << >>
    /\ uuids = 0
    /\ calls = << >>
    /\ wroteBy = 0
    /\ reqCtx = "active"
    /\ tasks = << >>
    /\ store \in {NewStore("sqlite"), NewStore("file")}
    /\ now = Second + 1
    /\ cleanup = [pc |-> "off"]
    /\ ret = << >>

NextStore ==
    \/ CallRecordUsage
    \/ CallQueryUsage
    \/ CallCleanupOldRecords
    \/ ClockAdvances

SpecStore == InitStore /\ [][NextStore]_vars


\* QueryUsage has returned.
Queried == ret # << >> /\ ret[1].op = "QueryUsage"

\* The record passes the query's request id filter.
Admitted(rec, query) == query.RequestID = "" \/ rec.RequestID = query.RequestID

\* C18: QueryUsage returns at most limit records (100 when limit <= 0), all
\* of the request id asked for when one is given, in the order of created_at
\* descending, records of one created_at in the order of id descending; for
\* either store.
C18_QueryUsageOrder ==
    Queried =>
        LET query == ret[1].query
            records == ret[1].records
        IN  /\ Len(records) <= (IF query.Limit <= 0 THEN 100 ELSE query.Limit)
            /\ \A i \in 1..Len(records) :
                  query.RequestID # "" => records[i].RequestID = query.RequestID
            /\ \A i, j \in 1..Len(records) :
                  i < j => \/ records[i].CreatedAt > records[j].CreatedAt
                           \/ /\ records[i].CreatedAt = records[j].CreatedAt
                              /\ records[i].ID > records[j].ID

\* The fields the claim names agree.
SameUsage(a, b) ==
    /\ a.Provider = b.Provider /\ a.Model = b.Model /\ a.Path = b.Path
    /\ a.RequestTokens = b.RequestTokens /\ a.ResponseTokens = b.ResponseTokens
    /\ a.StatusCode = b.StatusCode /\ a.Duration = b.Duration
    /\ a.Attempt = b.Attempt /\ a.FirstTokenLatency = b.FirstTokenLatency
    /\ a.Outcome = b.Outcome

\* C19: a record stored with RecordUsage comes back from a later QueryUsage
\* with the provider, model, path, request tokens, response tokens, status
\* code, duration, attempt, first-token latency and outcome it was stored
\* with: every record a query returns carries the fields of the record that
\* was handed to RecordUsage under its id, and a query returns every record
\* the store still holds that passes its filter when these are no more than
\* its limit.
C19_RecordThenQuery ==
    Queried =>
        LET query == ret[1].query
            records == ret[1].records
            admitted == { k \in 1..Len(store.records) : Admitted(store.records[k], query) }
        IN  /\ \A j \in 1..Len(records) :
                /\ records[j].ID \in 1..Len(usageRecords)
                /\ SameUsage(records[j], usageRecords[records[j].ID])
            /\ Cardinality(admitted) <= effectiveLimit(query) =>
                  \A k \in admitted :
                      \E j \in 1..Len(records) : records[j].ID = store.records[k].ID

\* The SQLite store returns both records stored, one of them a failure with
\* status 200 and one the second attempt of its request.
C19_Witness ==
    /\ Queried
    /\ store.kind = "sqlite"
    /\ Len(ret[1].records) = 2
    /\ \E j \in 1..2 : /\ ret[1].records[j].StatusCode = 200
                       /\ ret[1].records[j].Outcome = "failure"
    /\ \E j \in 1..2 : ret[1].records[j].Attempt = 2


\* The first candidate was contacted and answered 400.
FirstAnswered400 ==
    /\ InLoop
    /\ Len(calls) >= 1
    /\ calls[1].attempt = 1 /\ calls[1].reply = "response" /\ calls[1].status = 400

AliasRoute(route, target) ==
    LET named(m) == IF m = "" THEN target ELSE m
    IN  [config |-> [route.config EXCEPT !.Providers =
                        [i \in 1..Len(@) |-> [@[i] EXCEPT !.Model = named(@)]]],
         rules |-> [i \in 1..Len(route.rules) |->
                      [route.rules[i] EXCEPT !.providers =
                          [j \in 1..Len(@) |-> [@[j] EXCEPT !.model = named(@)]]]]]

\* The gateway New builds from a configuration with the aliases given: each
\* alias of a configured target is a model of its own, routed as the target,
\* and is listed.  modelList holds the ids New appends, one per model.
WithAlias(g, aliases) ==
    LET declared == { i \in 1..Len(aliases) : aliases[i].Target \in DOMAIN g.models }
        names == { aliases[i].Model : i \in declared }
        targetOf(n) == aliases[CHOOSE i \in declared : aliases[i].Model = n].Target
    IN  [cfg |-> g.cfg,
         providers |-> g.providers,
         models |-> [n \in DOMAIN g.models \cup names |->
                        IF n \in names THEN AliasRoute(g.models[targetOf(n)], targetOf(n))
                                       ELSE g.models[n]],
         defaultProvider |-> g.defaultProvider,
         usageStore |-> g.usageStore,
         alias |-> aliases,
         modelList |-> { g.cfg.Models[i].Name : i \in 1..Len(g.cfg.Models) } \cup names]

\* Gateway.ModelList: the ids of g.modelList (the models of the default
\* provider, fetched over the network, can only add ids).
ModelList(g) == g.modelList

\* Gateways without a store whose configuration declares "other" an alias of
\* the configured model "gpt".
InitAlias ==
    /\ gw \in { WithAlias(New(c, FALSE), << [Model |-> "other", Target |-> "gpt"] >>) :
                  c \in { c \in Configs : ~c.SaveUsage } }
    /\ req \in Requests
    /\ proxy = NewProxy
    /\ w = NewResponseWriter
    /\ usageRecords = << >>
    /\ uuids = 0
    /\ calls = << >>
    /\ wroteBy = 0
    /\ NoBackground

SpecAlias == InitAlias /\ [][Next]_vars

\* The provider ids the configuration lists for the model, by default or in a
\* rule.
ProvidersOf(cfg, name) ==
    LET m == LastModel(cfg, name)
    IN  { m.Providers[i].ID : i \in 1..Len(m.Providers) }
        \cup UNION { { m.Rules[i].Providers[j].Provider :
                          j \in 1..Len(m.Rules[i].Providers) } : i \in 1..Len(m.Rules) }

FailedBeforeWrite ==
    /\ InLoop /\ proxy.pc = "done"
    /\ proxy.err.kind = "error"
    /\ wroteBy \notin 1..Len(proxy.candidates)

\* C22 as stated: when an attempt fails with a non-retryable error before
\* anything was written to the client, no candidate after it is tried and
\* the client has an error response (a status of 400 or above with the
\* error's text) written by the handler.
C22_NonRetryableErrorReply ==
    FailedBeforeWrite =>
        /\ \A k \in 1..Len(calls) : calls[k].attempt <= proxy.attempt
        /\ proxy.attempt <= Len(proxy.candidates)
        /\ w.wroteHeader /\ w.status >= 400
        /\ w.body # << >>


\* ------------------------------------------------------------------------
\* The non-streaming response path
\* ------------------------------------------------------------------------

\* forwardRequest holds an upstream response below 400 whose body it has not
\* read yet, on the path that reads the body whole.
NonStreamingUnread ==
    /\ proxy.pc = "copy"
    /\ ~(proxy.stream \/ isEventStreamResponse(proxy.resp[1].Header))

\* forwardRequest returned the error of io.ReadAll on the non-streaming path.
ReadFailed ==
    /\ proxy.pc = "done" /\ proxy.fwd # << >> /\ proxy.resp # << >>
    /\ ~(proxy.stream \/ isEventStreamResponse(proxy.resp[1].Header))
    /\ proxy.err = Errorf("[" \o proxy.fwd[1].model \o "] read response from "
                          \o proxy.fwd[1].provider.ID \o ": unexpected EOF")

\* C23 as stated: on the non-streaming path nothing (status, headers, body)
\* is written to the client while the upstream body is not read completely,
\* and after a failure of that read the client has no status.
C23_ReadBeforeWrite ==
    /\ NonStreamingUnread => w = NewResponseWriter
    /\ (ReadFailed /\ ~proxy.viaDefault) => ~w.wroteHeader /\ w.status = 0


\* ------------------------------------------------------------------------
\* The order of the RecordUsage calls of one request
\* ------------------------------------------------------------------------

\* C24 as stated: a goroutine's RecordUsage call never happens after the
\* call of the goroutine of a later attempt.
C24_AsStated ==
    [][ \A i \in 1..Len(tasks) :
          (i <= Len(tasks') /\ tasks[i].pc = "RecordUsage" /\ tasks'[i].pc = "done")
              => \A j \in (i + 1)..Len(tasks) : tasks[j].pc # "done" ]_vars

\* C24 (as amended): the records of one request are handed to
\* saveUsageRecord, and the goroutines are given them, in attempt order: a
\* record handed over later has the greater attempt number, and goroutine i
\* holds the i-th record handed over.
C24_HandoverInAttemptOrder ==
    /\ \A i, j \in 1..Len(usageRecords) :
          i < j => usageRecords[i].Attempt < usageRecords[j].Attempt
    /\ \A i \in 1..Len(tasks) :
          /\ tasks[i].rec.Attempt = usageRecords[i].Attempt
          /\ tasks[i].rec.Provider = usageRecords[i].Provider
          /\ tasks[i].calls <= 1

\* Both attempts' records were handed over in order, and the store got the
\* record of attempt 2 before the record of attempt 1.
C24_Witness ==
    /\ Len(usageRecords) = 2 /\ Len(tasks) = 2
    /\ Len(store.records) = 2
    /\ store.records[1].Attempt = 2 /\ store.records[2].Attempt = 1


\* ------------------------------------------------------------------------
\* The credentials of an outbound request
\* ------------------------------------------------------------------------

\* The values the outbound request of the build carries under the key.
OutboundValues(key) == { e[2] : e \in { x \in calls[1].header : x[1] = key } }

\* The values the provider's fixed header map sets under the key.
FixedValues(provider, key) ==
    { e[2] : e \in { x \in provider.Headers : CanonicalKey(x[1]) = key } }

\* C25: the outbound request carries the token of the provider of the attempt
\* and of no other provider.  For an Anthropic provider X-Api-Key is the
\* token and Authorization is absent; for any other provider Authorization is
\* "Bearer <token>" and X-Api-Key is absent; a credential header differs from
\* this only where the provider's fixed header map names it, and then it has
\* the fixed value.
C25_ProviderCredentials ==
    proxy.pc = "built" =>
        LET provider == proxy.fwd[1].provider
            own == IF provider.Type = "anthropic" THEN "X-Api-Key" ELSE "Authorization"
            other == IF provider.Type = "anthropic" THEN "Authorization" ELSE "X-Api-Key"
            token == IF provider.Type = "anthropic"
                     THEN << provider.AccessToken >>
                     ELSE << "Bearer", " ", provider.AccessToken >>
        IN  /\ OutboundValues(own) = IF FixedValues(provider, own) = {}
                                     THEN {token}
                                     ELSE FixedValues(provider, own)
            /\ OutboundValues(other) = FixedValues(provider, other)
            /\ \A i \in 1..Len(gw.cfg.Providers) :
                  gw.cfg.Providers[i].ID # provider.ID =>
                      \A e \in calls[1].header :
                          \A n \in 1..Len(e[2]) : e[2][n] # gw.cfg.Providers[i].AccessToken
            /\ \A e \in req.Header :
                  e[1] \in {"Authorization", "X-Api-Key"} => e \notin calls[1].header

\* The request of a client that sent both credential headers was built for
\* the Anthropic provider, whose fixed headers name Authorization: X-Api-Key
\* is the provider's token and Authorization the fixed value.
C25_Witness ==
    /\ proxy.pc = "built"
    /\ req.Header = HeaderEntries
    /\ proxy.fwd[1].provider.Type = "anthropic"
    /\ OutboundValues("X-Api-Key") = { << "tokB" >> }
    /\ OutboundValues("Authorization") = { << "Bearer", " ", "fixedtok" >> }


\* ------------------------------------------------------------------------
\* Rules whose evaluation fails or is not a boolean
\* ------------------------------------------------------------------------

\* Rule texts that name an unbound identifier, order a string that is no
\* number, or yield a number.
FailingExpressions == {"Tokens > 1000", "Model > 1000", "TokenCount"}

\* The route without its rule at position i.
RouteWithout(route, i) ==
    [route EXCEPT !.rules = [k \in 1..(Len(@) - 1) |-> IF k < i THEN @[k] ELSE @[k + 1]]]

\* C26: a rule whose evaluation fails or yields a non-boolean is skipped: the
\* selection returns a candidate list (the request does not fail), the list
\* is never that rule's, and it is the list the route gives without the
\* rule, so the rules after it are evaluated in order.
C26_FailingRuleSkipped ==
    proxy.pc = "selected" =>
        LET m == gw.cfg.Models[1]
            route == gw.models["gpt"]
        IN  \A i \in 1..Len(m.Rules) :
                m.Rules[i].Expression \in FailingExpressions =>
                    /\ proxy.err.kind = "nil"
                    /\ proxy.candidates # route.rules[i].providers
                    /\ proxy.candidates =
                         selectProviders(RouteWithout(route, i), proxy.modelName,
                                         proxy.tokenCount, req.Path)

\* A rule naming an unbound identifier stands before a rule that is true, and
\* the second rule's list is selected.
C26_Witness ==
    /\ proxy.pc = "selected"
    /\ Len(gw.cfg.Models[1].Rules) = 2
    /\ gw.cfg.Models[1].Rules[1].Expression = "Tokens > 1000"
    /\ gw.cfg.Models[1].Rules[2].Expression = "true"
    /\ proxy.candidates = << [id |-> "pB", model |-> "tm2"] >>


\* ------------------------------------------------------------------------
\* && and || on operands of every type
\* ------------------------------------------------------------------------

\* Operands of a rule: the literals the parser reads (int64, float64, string,
\* boolean) and the identifiers of EvalEnv.
OperandNodes ==
    { literalNode(v) : v \in { Int64Val(0), Int64Val(2), FloatVal(0), FloatVal(3),
                               StrVal(""), StrVal("gpt"), StrVal("true"), StrVal("1"),
                               StrVal("0"), BoolVal(TRUE), BoolVal(FALSE) } }
    \cup { identifierNode("TokenCount"), identifierNode("Model") }

\* A gateway whose model has one rule, "left op right" with op one of && and
\* ||, in front of the default candidate pA.
InitLogical ==
    /\ gw \in { [g EXCEPT !.models =
                    [n \in {"gpt"} |->
                        [config |-> g.models["gpt"].config,
                         rules |-> << [program |-> binaryNode(left, op, right),
                                       providers |-> << [id |-> "pB", model |-> "tm1"] >>] >>]]] :
                  g \in { New(MakeConfig(<< [Name |-> "gpt",
                                             Providers |-> << [ID |-> "pA", Model |-> ""] >>,
                                             Rules |-> << >>] >>, "", FALSE), FALSE) },
                  left \in OperandNodes, right \in OperandNodes, op \in {"&&", "||"} }
    /\ req \in { r \in Requests : ~r.bodyErr /\ r.XRequestID = << >>
                                   /\ r.body = MakeBody(TRUE, "gpt", FALSE, 500) }
    /\ proxy \in { [NewProxy EXCEPT !.pc = "select", !.modelName = m, !.tokenCount = t] :
                    m \in {"gpt", ""}, t \in {0, 500} }
    /\ w = NewResponseWriter
    /\ usageRecords = << >>
    /\ uuids = 0
    /\ calls = << >>
    /\ wroteBy = 0
    /\ NoBackground

SpecLogical == InitLogical /\ [][NextSelect]_vars

\* The value of an operand of the rule under the request's environment.
OperandValue(node) ==
    CASE node.k = "literal" -> node.value
      [] node.name = "TokenCount" -> IntVal(proxy.tokenCount)
      [] node.name = "Model" -> StrVal(proxy.modelName)

\* Truthiness as the claim has it: a boolean is itself, a number is true when
\* it is not zero, a string when it is not empty.
Truthy(v) ==
    CASE v.t = "bool" -> v.b
      [] IsNumber(v) -> v.n # 0
      [] v.t = "string" -> v.s # ""

\* C27 as stated: && and || take their operands by truthiness, so the rule
\* "left op right" is selected exactly when the truth values of the operands
\* (non-zero number, non-empty string, true) make op true.
C27_LogicalTruthiness ==
    proxy.pc = "selected" =>
        LET program == gw.models["gpt"].rules[1].program
            left == Truthy(OperandValue(program.left))
            right == Truthy(OperandValue(program.right))
            expected == IF program.op = "&&" THEN left /\ right ELSE left \/ right
        IN  (proxy.candidates = << [id |-> "pB", model |-> "tm1"] >>) <=> expected


\* ------------------------------------------------------------------------
\* joinURL (gateway.go): the upstream URL of a base URL and a request path
\* ------------------------------------------------------------------------

\* A URL text is the sequence of its scheme with "://", its host with the
\* port, the characters of its path and, after a "?", its query.  A path is
\* a sequence of one-character strings.

\* url.Parse on the URL texts of the model: the host "[bad" is rejected.
Parse(u) ==
    IF Len(u) < 2 \/ u[2] = "[bad"
    THEN [err |-> TRUE, Scheme |-> "", Host |-> "", Path |-> << >>, RawQuery |-> << >>]
    ELSE LET rest == SubSeq(u, 3, Len(u))
             marks == { i \in 1..Len(rest) : rest[i] = "?" }
             q == IF marks = {} THEN Len(rest) + 1
                  ELSE CHOOSE i \in marks : \A j \in marks : i <= j
         IN  [err |-> FALSE, Scheme |-> u[1], Host |-> u[2],
              Path |-> SubSeq(rest, 1, q - 1),
              RawQuery |-> SubSeq(rest, q + 1, Len(rest))]

\* URL.String().
String(url) ==
    << url.Scheme, url.Host >> \o url.Path
    \o (IF url.RawQuery = << >> THEN << >> ELSE << "?" >> \o url.RawQuery)

\* strings.Trim(p, "/").
RECURSIVE TrimSlashes(_)
TrimSlashes(p) ==
    IF p # << >> /\ Head(p) = "/" THEN TrimSlashes(Tail(p))
    ELSE IF p # << >> /\ p[Len(p)] = "/" THEN TrimSlashes(SubSeq(p, 1, Len(p) - 1))
    ELSE p

\* strings.Split(p, "/"): the pieces between the slashes, empty ones kept.
RECURSIVE Split(_)
Split(p) ==
    LET slashes == { i \in 1..Len(p) : p[i] = "/" }
    IN  IF slashes = {}
        THEN << p >>
        ELSE LET i == CHOOSE x \in slashes : \A y \in slashes : x <= y
             IN  << SubSeq(p, 1, i - 1) >> \o Split(SubSeq(p, i + 1, Len(p)))

splitPathSegments(p) ==
    IF TrimSlashes(p) = << >> THEN << >> ELSE Split(TrimSlashes(p))

\* "/" + strings.Join(segments, "/") for a non-empty list.
RECURSIVE JoinSegments(_)
JoinSegments(segments) ==
    IF segments = << >> THEN << >>
    ELSE << "/" >> \o Head(segments) \o JoinSegments(Tail(segments))

\* A check that finds no overlap of one segment or more.
noOverlap(baseSegments, reqSegments, overlap) == overlap = 0

hasSuffixPrefixOverlap(baseSegments, reqSegments, overlap) ==
    IF overlap = 0 THEN TRUE
    ELSE IF overlap > Len(baseSegments) \/ overlap > Len(reqSegments) THEN FALSE
    ELSE \A i \in 0..(overlap - 1) :
            baseSegments[Len(baseSegments) - overlap + i + 1] = reqSegments[i + 1]

\* A search for the overlap that takes the first match from 1 upwards.
smallestOverlap(baseSegments, reqSegments, overlap) ==
    LET RECURSIVE up(_)
        up(k) == IF k > overlap THEN 0
                 ELSE IF hasSuffixPrefixOverlap(baseSegments, reqSegments, k) THEN k
                 ELSE up(k + 1)
    IN  up(1)

\* "for overlap := maxOverlap; overlap > 0; overlap--": the number of
\* segments the loop cuts from the request's.
findOverlap(baseSegments, reqSegments, overlap) ==
    LET RECURSIVE down(_)
        down(k) == IF k <= 0 THEN 0
                   ELSE IF hasSuffixPrefixOverlap(baseSegments, reqSegments, k) THEN k
                   ELSE down(k - 1)
    IN  down(overlap)

min(a, b) == IF a < b THEN a ELSE b

\* joinURL(base, path, rawQuery): (text, error).
joinURL(base, path, rawQuery) ==
    LET baseURL == Parse(base)
        baseSegments == splitPathSegments(baseURL.Path)
        reqSegments == splitPathSegments(path)
        overlap == findOverlap(baseSegments, reqSegments,
                               min(Len(baseSegments), Len(reqSegments)))
        merged == baseSegments \o SubSeq(reqSegments, overlap + 1, Len(reqSegments))
        target == [baseURL EXCEPT !.Path = JoinSegments(merged), !.RawQuery = rawQuery]
    IN  IF baseURL.err
        THEN [err |-> TRUE, url |-> << >>]
        ELSE [err |-> FALSE, url |-> String(target)]

\* Paths of up to n characters over "/" and two letters.
Paths(n) == UNION { [1..k -> {"/", "a", "b"}] : k \in 0..n }

\* The paths of the provider documentation: a base ending in /v1 and the two
\* ways a request names chat/completions.
PathV1 == << "/", "v", "1" >>
PathChat == << "c", "h", "a", "t", "/", "c", "o", "m", "p", "l", "e", "t", "i", "o", "n", "s" >>

\* Base URL texts of a provider: two hosts (one with a port) and one that
\* does not parse, any path, with or without a query of their own.
BaseURLs ==
    { << "https://", host >> \o path \o query :
        host \in {"a.example", "b.example:8443", "[bad"},
        path \in Paths(MaxPathLen) \cup {PathV1},
        query \in { << >>, << "?", "k=1" >> } }

\* forwardRequest computes the endpoint for a drawn base URL, request path
\* and raw query.
InitJoin ==
    /\ proxy \in { [pc |-> "join", base |-> base, path |-> path, rawQuery |-> query,
                    endpoint |-> << >>] :
                    base \in BaseURLs,
                    path \in Paths(MaxPathLen) \cup {PathChat, Tail(PathV1) \o << "/" >> \o PathChat},
                    query \in { << >>, << "q=1" >> } }
    /\ gw = << >>
    /\ req = << >>
    /\ w = NewResponseWriter
    /\ usageRecords = << >>
    /\ uuids = 0
    /\ calls = << >>
    /\ wroteBy = 0
    /\ NoBackground

\* endpoint, err := joinURL(provider.BaseURL, path, r.URL.RawQuery)
Join ==
    /\ proxy.pc = "join"
    /\ proxy' = [proxy EXCEPT !.pc = "joined",
                              !.endpoint = << joinURL(proxy.base, proxy.path, proxy.rawQuery) >>]
    /\ UNCHANGED <<background, gw, req, w, usageRecords, uuids, calls, wroteBy>>

\* joinURL applied to an endpoint it returned, with the same path and query.
JoinAgain ==
    /\ proxy.pc = "joined"
    /\ ~proxy.endpoint[1].err
    /\ proxy' = [proxy EXCEPT !.pc = "rejoined",
                              !.endpoint = Append(@, joinURL(proxy.endpoint[1].url,
                                                             proxy.path, proxy.rawQuery))]
    /\ UNCHANGED <<background, gw, req, w, usageRecords, uuids, calls, wroteBy>>

NextJoin == Join \/ JoinAgain

SpecJoin == InitJoin /\ [][NextJoin]_vars


\* The greatest k for which the last k base segments are the first k request
\* segments (0 when there is none).
LargestOverlap(baseSegments, reqSegments) ==
    LET fits == { k \in 0..min(Len(baseSegments), Len(reqSegments)) :
                    SubSeq(baseSegments, Len(baseSegments) - k + 1, Len(baseSegments))
                        = SubSeq(reqSegments, 1, k) }
    IN  CHOOSE k \in fits : \A j \in fits : j <= k

\* C28: joinURL(base, path, query) keeps the scheme and the host with its
\* port; the segments of its path are all base segments followed by the
\* request segments without their first k, k the largest overlap; its query
\* is the query given, the base's own being dropped; and a base ending in /v1
\* joined with chat/completions or with v1/chat/completions gives
\* /v1/chat/completions.
C28_JoinURL ==
    (proxy.pc \in {"joined", "rejoined"} /\ ~Parse(proxy.base).err) =>
        LET base == Parse(proxy.base)
            result == Parse(proxy.endpoint[1].url)
            baseSegments == splitPathSegments(base.Path)
            reqSegments == splitPathSegments(proxy.path)
            k == LargestOverlap(baseSegments, reqSegments)
        IN  /\ ~proxy.endpoint[1].err /\ ~result.err
            /\ result.Scheme = base.Scheme /\ result.Host = base.Host
            /\ splitPathSegments(result.Path)
                 = baseSegments \o SubSeq(reqSegments, k + 1, Len(reqSegments))
            /\ result.Path # << >> => Head(result.Path) = "/" /\ result.Path[Len(result.Path)] # "/"
            /\ result.RawQuery = proxy.rawQuery
            /\ (base.Path = PathV1 /\ Len(proxy.path) > MaxPathLen)
                  => result.Path = PathV1 \o << "/" >> \o PathChat

\* The base path a/b joined with the request path b/a, the query q=1 in place
\* of the base's k=1, on the host with a port: one segment overlaps.
C28_Witness ==
    /\ proxy.pc = "joined"
    /\ proxy.base = << "https://", "b.example:8443", "a", "/", "b", "?", "k=1" >>
    /\ proxy.path = << "b", "/", "a" >>
    /\ proxy.endpoint[1].url
         = << "https://", "b.example:8443", "/", "a", "/", "b", "/", "a", "?", "q=1" >>

\* C29: joinURL applied to its own result with the same path and query gives
\* that result again.
C29_JoinURLIdempotent ==
    proxy.pc = "rejoined" => proxy.endpoint[2] = proxy.endpoint[1]

\* v1/chat/completions was joined to a base ending in /v1 and then to the
\* result.
C29_Witness ==
    /\ proxy.pc = "rejoined"
    /\ Parse(proxy.base).Path = PathV1
    /\ proxy.path = Tail(PathV1) \o << "/" >> \o PathChat
    /\ Parse(proxy.endpoint[2].url).Path = PathV1 \o << "/" >> \o PathChat


\* ------------------------------------------------------------------------
\* normalizeRequestBody: the request body before it is routed
\* ------------------------------------------------------------------------

\* A request body as its bytes decode: valid is whether json.Unmarshal into
\* a map succeeds; form tells the client's bytes from the bytes json.Marshal
\* writes for the same payload (key order, spacing); seed is a top-level
\* number; messages is absent, no array, or a list of messages.  A message
\* is an object with role and content or something else; a content is
\* absent, a string (text names it; marshalled holds the items of a content
\* array written into it) or an array of items; an item is an object with
\* a type or something else.
Item(k, type) == [k |-> k, type |-> type]

Content(k, text, items) == [k |-> k, text |-> text, items |-> items]

Message(k, role, content) == [k |-> k, role |-> role, content |-> content]

NormBody(valid, form, seed, k, list) ==
    [valid |-> valid, form |-> form, seed |-> seed, messages |-> [k |-> k, list |-> list]]

\* strings.EqualFold on the strings of the model.
EqualFold(a, b) == ToLower(a) = ToLower(b)

\* An item pass that reports a change for every object item.
normalizeItemAlways(item) ==
    IF item.k = "object"
    THEN [item |-> IF EqualFold(item.type, "image") THEN Item("object", "image_url") ELSE item,
          changed |-> TRUE]
    ELSE [item |-> item, changed |-> FALSE]

\* The body of the loop over a content array: an object item whose type is
\* "image" in any case becomes "image_url".
normalizeItem(item) ==
    IF item.k = "object" /\ EqualFold(item.type, "image")
    THEN [item |-> Item("object", "image_url"), changed |-> TRUE]
    ELSE [item |-> item, changed |-> FALSE]

\* A message pass that rewrites the items of a tool message before writing
\* them into the string.
normalizeMessageRewritesTool(msg) ==
    IF msg.k # "object" \/ msg.content.k # "array"
    THEN [msg |-> msg, changed |-> FALSE]
    ELSE LET items == [j \in 1..Len(msg.content.items) |->
                         normalizeItem(msg.content.items[j])]
             rewritten == [j \in 1..Len(items) |-> items[j].item]
         IN  IF EqualFold(msg.role, "tool")
             THEN [msg |-> [msg EXCEPT !.content = Content("string", "marshalled", rewritten)],
                   changed |-> TRUE]
             ELSE [msg |-> [msg EXCEPT !.content.items = rewritten],
                   changed |-> \E j \in 1..Len(items) : items[j].changed]

\* The body of the loop over the messages.
normalizeMessage(msg) ==
    IF msg.k # "object" \/ msg.content.k # "array"
    THEN [msg |-> msg, changed |-> FALSE]
    ELSE IF EqualFold(msg.role, "tool")
         THEN [msg |-> [msg EXCEPT !.content =
                          Content("string", "marshalled", msg.content.items)],
               changed |-> TRUE]
         ELSE LET items == [j \in 1..Len(msg.content.items) |->
                              normalizeItem(msg.content.items[j])]
              IN  [msg |-> [msg EXCEPT !.content.items =
                              [j \in 1..Len(items) |-> items[j].item]],
                   changed |-> \E j \in 1..Len(items) : items[j].changed]

\* json.Marshal(payload): the bytes of the encoder, numbers having passed
\* through float64.
Marshal(body, list) ==
    [body EXCEPT !.form = "marshalled", !.seed = Float64RoundTrip(@), !.messages.list = list]

\* normalizeRequestBody(body, reqType): (bytes, changed); the error return is
\* json.Marshal's, which a decoded payload cannot cause.
normalizeRequestBody(body, reqType) ==
    IF reqType \notin {"ChatCompletions", "Responses"}
       \/ ~body.valid
       \/ body.messages.k # "array" \/ body.messages.list = << >>
    THEN [body |-> body, changed |-> FALSE]
    ELSE LET msgs == [i \in 1..Len(body.messages.list) |->
                        normalizeMessage(body.messages.list[i])]
         IN  IF \E i \in 1..Len(msgs) : msgs[i].changed
             THEN [body |-> Marshal(body, [i \in 1..Len(msgs) |-> msgs[i].msg]),
                   changed |-> TRUE]
             ELSE [body |-> body, changed |-> FALSE]

Items ==
    { Item("object", "text"), Item("object", "image"), Item("object", "IMAGE"),
      Item("other", "") }

Contents ==
    { Content("absent", "", << >>), Content("string", "hello", << >>) }
    \cup { Content("array", "", items) : items \in SeqsUpTo(Items, MaxItems) }

Messages ==
    { Message("other", "", Content("absent", "", << >>)) }
    \cup { Message("object", role, content) : role \in {"user", "Tool"}, content \in Contents }

\* The bodies a client may send: not JSON, without messages, with messages
\* that are no array, and with up to MaxMessages messages.
NormBodies ==
    { NormBody(FALSE, "sent", "7", "absent", << >>) }
    \cup { NormBody(TRUE, "sent", seed, k, << >>) :
             seed \in {"7", "9007199254740993"}, k \in {"absent", "other"} }
    \cup { NormBody(TRUE, "sent", seed, "array", list) :
             seed \in {"7", "9007199254740993"}, list \in SeqsUpTo(Messages, MaxMessages) }

InitNormalize ==
    /\ proxy \in { [pc |-> "normalize", bodyBytes |-> body, reqType |-> reqType,
                    normalized |-> << >>] :
                    body \in NormBodies,
                    reqType \in {"ChatCompletions", "Responses", "AnthropicMessages"} }
    /\ gw = << >>
    /\ req = << >>
    /\ w = NewResponseWriter
    /\ usageRecords = << >>
    /\ uuids = 0
    /\ calls = << >>
    /\ wroteBy = 0
    /\ NoBackground

\* normalized, changed, err := normalizeRequestBody(bodyBytes, reqType)
Normalize ==
    /\ proxy.pc = "normalize"
    /\ proxy' = [proxy EXCEPT !.pc = "normalized",
                              !.normalized = << normalizeRequestBody(proxy.bodyBytes,
                                                                     proxy.reqType) >>]
    /\ UNCHANGED <<background, gw, req, w, usageRecords, uuids, calls, wroteBy>>

\* normalizeRequestBody applied to the bytes it returned.
NormalizeAgain ==
    /\ proxy.pc = "normalized"
    /\ proxy' = [proxy EXCEPT !.pc = "renormalized",
                              !.normalized = Append(@, normalizeRequestBody(
                                                proxy.normalized[1].body, proxy.reqType))]
    /\ UNCHANGED <<background, gw, req, w, usageRecords, uuids, calls, wroteBy>>

NextNormalize == Normalize \/ NormalizeAgain

SpecNormalize == InitNormalize /\ [][NextNormalize]_vars

\* C30: normalizing the output of normalizeRequestBody returns the same
\* bytes and reports no change, for every body and request type.
C30_NormalizeIdempotent ==
    proxy.pc = "renormalized" =>
        /\ proxy.normalized[2].body = proxy.normalized[1].body
        /\ ~proxy.normalized[2].changed

\* A chat body with one user message holding an image item in capitals was
\* rewritten by the first pass and left alone by the second.
C30_Witness ==
    /\ proxy.pc = "renormalized"
    /\ proxy.reqType = "ChatCompletions"
    /\ proxy.bodyBytes.messages.list
         = << Message("object", "user",
                      Content("array", "", << Item("object", "IMAGE"), Item("other", "") >>)) >>
    /\ proxy.normalized[1].changed
    /\ proxy.normalized[1].body.messages.list[1].content.items[1].type = "image_url"
    /\ proxy.normalized[1].body # proxy.bodyBytes
    /\ proxy.normalized[2] = [body |-> proxy.normalized[1].body, changed |-> FALSE]


\* A tool message with array content, and an image item, in any letter case
\* the model draws.
IsToolArray(msg) ==
    msg.k = "object" /\ msg.content.k = "array" /\ msg.role \in {"tool", "Tool"}

IsImage(item) == item.k = "object" /\ item.type \in {"image", "IMAGE"}

\* The message the claim expects for msg, and whether it is an edit.
ExpectedMessage(msg) ==
    IF msg.k # "object" \/ msg.content.k # "array" THEN msg
    ELSE IF IsToolArray(msg)
         THEN Message("object", msg.role, Content("string", "marshalled", msg.content.items))
         ELSE Message("object", msg.role,
                      Content("array", "",
                              [j \in 1..Len(msg.content.items) |->
                                  IF IsImage(msg.content.items[j])
                                  THEN Item("object", "image_url")
                                  ELSE msg.content.items[j]]))

IsEdited(msg) ==
    /\ msg.k = "object" /\ msg.content.k = "array"
    /\ \/ IsToolArray(msg)
       \/ \E j \in 1..Len(msg.content.items) : IsImage(msg.content.items[j])

\* C31: normalizeRequestBody edits only ChatCompletions and Responses
\* bodies that are JSON with a message list: a tool message with array
\* content gets the array as a string, its items as they were; any other
\* message with array content gets type image_url on its image items;
\* changed is true exactly when a message was edited, and without an edit
\* the bytes returned are the bytes given.
C31_NormalizeEdits ==
    proxy.pc \in {"normalized", "renormalized"} =>
        LET in == proxy.bodyBytes
            out == proxy.normalized[1]
            edits == /\ proxy.reqType \in {"ChatCompletions", "Responses"}
                     /\ in.valid /\ in.messages.k = "array"
                     /\ \E i \in 1..Len(in.messages.list) : IsEdited(in.messages.list[i])
        IN  /\ out.changed <=> edits
            /\ ~edits => out.body = in
            /\ edits =>
                /\ out.body.messages.k = "array"
                /\ Len(out.body.messages.list) = Len(in.messages.list)
                /\ \A i \in 1..Len(in.messages.list) :
                      out.body.messages.list[i] = ExpectedMessage(in.messages.list[i])

\* A Responses body whose tool message (role "Tool") holds an image item:
\* the content is the string of the array and the item is still IMAGE.
C31_Witness ==
    /\ proxy.pc = "normalized"
    /\ proxy.reqType = "Responses"
    /\ proxy.bodyBytes.messages.list
         = << Message("object", "Tool", Content("array", "", << Item("object", "IMAGE") >>)) >>
    /\ proxy.normalized[1].changed
    /\ proxy.normalized[1].body.messages.list
         = << Message("object", "Tool",
                      Content("string", "marshalled", << Item("object", "IMAGE") >>)) >>


\* ------------------------------------------------------------------------
\* maskToken: the credentials of a logged request
\* ------------------------------------------------------------------------

\* strings.Repeat("*", n).
Repeat(n) == [i \in 1..n |-> "*"]

\* A maskToken that keeps the first four characters only.
maskTokenPrefixOnly(token) ==
    LET t == TrimSpace(token)
    IN  IF t = << >> THEN << >>
        ELSE IF Len(t) <= 4 + 4 THEN Repeat(Len(t))
        ELSE SubSeq(t, 1, 4) \o Repeat(Len(t) - 4)

\* maskToken(token), a token being a sequence of one-character strings.
maskToken(token) ==
    LET t == TrimSpace(token)
    IN  IF t = << >> THEN << >>
        ELSE IF Len(t) <= 4 + 4 THEN Repeat(Len(t))
        ELSE SubSeq(t, 1, 4) \o Repeat(Len(t) - 4 - 4) \o SubSeq(t, Len(t) - 4 + 1, Len(t))

\* The values of an x-api-key header: up to MaxTokenLen characters, blanks
\* among them.
Tokens == UNION { [1..k -> {" ", "a", "b"}] : k \in 0..MaxTokenLen }

\* sanitizeHeaders meets an x-api-key value.
InitMask ==
    /\ proxy \in { [pc |-> "mask", token |-> t, masked |-> << >>] : t \in Tokens }
    /\ gw = << >>
    /\ req = << >>
    /\ w = NewResponseWriter
    /\ usageRecords = << >>
    /\ uuids = 0
    /\ calls = << >>
    /\ wroteBy = 0
    /\ NoBackground

\* "case "x-api-key": cleanVals = append(cleanVals, maskToken(v))"
MaskToken ==
    /\ proxy.pc = "mask"
    /\ proxy' = [proxy EXCEPT !.pc = "masked", !.masked = maskToken(proxy.token)]
    /\ UNCHANGED <<background, gw, req, w, usageRecords, uuids, calls, wroteBy>>

NextMask == MaskToken

SpecMask == InitMask /\ [][NextMask]_vars

\* masked is t with everything but its first and last four characters
\* starred when t is longer than eight characters, and all stars otherwise.
MaskOf(t, masked) ==
    /\ Len(masked) = Len(t)
    /\ \A i \in 1..Len(t) :
          masked[i] = IF Len(t) > 8 /\ (i <= 4 \/ i > Len(t) - 4) THEN t[i] ELSE "*"

\* C32 as stated: the masked form of every token has the token's length,
\* keeps its first and last four characters when it is longer than eight and
\* is all stars otherwise.
C32_AsStated ==
    proxy.pc = "masked" => MaskOf(proxy.token, proxy.masked)

\* C32 (as amended): the same of the token without its leading and trailing
\* white space.
C32_MaskToken ==
    proxy.pc = "masked" =>
        \E i \in 1..(Len(proxy.token) + 1), j \in 0..Len(proxy.token) :
            /\ \A k \in 1..(i - 1) : proxy.token[k] = " "
            /\ \A k \in (j + 1)..Len(proxy.token) : proxy.token[k] = " "
            /\ i <= j => proxy.token[i] # " " /\ proxy.token[j] # " "
            /\ i > j => j = i - 1
            /\ MaskOf(SubSeq(proxy.token, i, j), proxy.masked)

\* A token of nine characters with a blank inside was masked: one star
\* between its first and last four characters.
C32_Witness ==
    /\ proxy.pc = "masked"
    /\ proxy.token = << "a", "b", "a", "b", " ", "b", "a", "b", "a" >>
    /\ proxy.masked = << "a", "b", "a", "b", "*", "b", "a", "b", "a" >>


\* ------------------------------------------------------------------------
\* The clock of an attempt: duration and first-token latency
\* ------------------------------------------------------------------------

\* newFirstByteReader(resp.Body, started).
newFirstByteReader(started, t) ==
    [started |-> IF IsZero(started) THEN t ELSE started, firstRead |-> 0]

\* firstByteReader.Read returning n bytes at instant t.
TrackerRead(r, n, t) ==
    IF n > 0 /\ IsZero(r.firstRead) THEN [r EXCEPT !.firstRead = t] ELSE r

\* A Latency that forgets to subtract the start.
LatencySinceZero(r) ==
    IF IsZero(r.firstRead) THEN 0 ELSE r.firstRead

\* firstByteReader.Latency().
Latency(r) ==
    IF IsZero(r.firstRead) THEN 0 ELSE r.firstRead - r.started

\* time.Since(started) at instant t.
Since(started, t) == t - started

\* The clock fields of the record of one attempt.
TimedRecord(outcome, duration, firstTokenLatency, bytesRead) ==
    [Outcome |-> outcome, Duration |-> duration,
     FirstTokenLatency |-> firstTokenLatency, bytesRead |-> bytesRead]

\* One candidate of the loop, at some instant of a clock that does not go
\* back.
InitLatency ==
    /\ proxy = [pc |-> "candidate", started |-> 0, tracker |-> newFirstByteReader(0, 0),
                status |-> 0, streaming |-> FALSE, chunks |-> 0, bytesRead |-> 0]
    /\ now \in 1..2
    /\ gw = << >>
    /\ req = << >>
    /\ w = NewResponseWriter
    /\ usageRecords = << >>
    /\ uuids = 0
    /\ calls = << >>
    /\ wroteBy = 0
    /\ reqCtx = "active"
    /\ tasks = << >>
    /\ store = NewStore("file")
    /\ cleanup = [pc |-> "off"]
    /\ ret = << >>

LatencyFrame ==
    UNCHANGED <<gw, req, w, uuids, calls, wroteBy, reqCtx, tasks, store, cleanup, ret>>

\* time.Now() moves on.
LatencyClock ==
    /\ now < MaxInstant
    /\ now' = now + 1
    /\ UNCHANGED <<proxy, usageRecords>>
    /\ LatencyFrame

\* The candidate names no provider, or its body cannot be rewritten: the
\* record is saved with Duration 0 and no attempt is made.
NoAttempt ==
    /\ proxy.pc = "candidate"
    /\ usageRecords' = Append(usageRecords, TimedRecord("failure", 0, 0, 0))
    /\ proxy' = [proxy EXCEPT !.pc = "done"]
    /\ UNCHANGED now
    /\ LatencyFrame

\* forwardRequest starts: started := time.Now(); a URL or request that
\* cannot be built ends it with the record as prepared.
ForwardStart ==
    /\ proxy.pc = "candidate"
    /\ \E built \in BOOLEAN :
        IF built
        THEN /\ proxy' = [proxy EXCEPT !.pc = "do", !.started = now]
             /\ UNCHANGED usageRecords
        ELSE /\ proxy' = [proxy EXCEPT !.pc = "done", !.started = now]
             /\ usageRecords' = Append(usageRecords, TimedRecord("failure", 0, 0, 0))
    /\ UNCHANGED now
    /\ LatencyFrame

\* httpClient.Do returns an error.
DoFails ==
    /\ proxy.pc = "do"
    /\ usageRecords' = Append(usageRecords,
                         TimedRecord("failure", Since(proxy.started, now), 0, 0))
    /\ proxy' = [proxy EXCEPT !.pc = "done"]
    /\ UNCHANGED now
    /\ LatencyFrame

\* httpClient.Do returns a response whose body has some chunks to read.
DoReturns ==
    /\ proxy.pc = "do"
    /\ \E status \in {200, 503}, streaming \in BOOLEAN, chunks \in 0..MaxChunks :
        proxy' = [proxy EXCEPT !.pc = "reading", !.status = status,
                               !.streaming = streaming, !.chunks = chunks,
                               !.tracker = newFirstByteReader(proxy.started, now)]
    /\ UNCHANGED <<now, usageRecords>>
    /\ LatencyFrame

\* tracker.Read returns a chunk (inside io.ReadAll or io.Copy).
ReadChunk ==
    /\ proxy.pc = "reading"
    /\ proxy.chunks > 0
    /\ proxy' = [proxy EXCEPT !.chunks = @ - 1, !.bytesRead = @ + 1,
                              !.tracker = TrackerRead(@, 1, now)]
    /\ UNCHANGED <<now, usageRecords>>
    /\ LatencyFrame

\* The reading ends, by the end of the body or by an error of the read or of
\* the write to the client: Duration and FirstTokenLatency are taken and
\* forwardRequest returns.
ReadEnds ==
    /\ proxy.pc = "reading"
    /\ \E failed \in BOOLEAN :
        /\ ~failed => proxy.chunks = 0
        /\ usageRecords' =
             Append(usageRecords,
                    TimedRecord(IF failed \/ shouldRetryStatus(proxy.status)
                                THEN "failure" ELSE "success",
                                Since(proxy.started, now), Latency(proxy.tracker),
                                proxy.bytesRead))
    /\ proxy' = [proxy EXCEPT !.pc = "done"]
    /\ UNCHANGED now
    /\ LatencyFrame

NextLatency ==
    \/ LatencyClock
    \/ NoAttempt
    \/ ForwardStart
    \/ DoFails
    \/ DoReturns
    \/ ReadChunk
    \/ ReadEnds

SpecLatency == InitLatency /\ [][NextLatency]_vars

\* C33: in every usage record, of a success and of every failure, the first
\* token latency and the duration are not negative, the latency is at most
\* the duration, and the latency is 0 when no byte of the body was read.
C33_LatencyWithinDuration ==
    \A i \in 1..Len(usageRecords) :
        /\ usageRecords[i].FirstTokenLatency >= 0
        /\ usageRecords[i].Duration >= 0
        /\ usageRecords[i].FirstTokenLatency <= usageRecords[i].Duration
        /\ usageRecords[i].bytesRead = 0 => usageRecords[i].FirstTokenLatency = 0

\* A success whose first chunk came one instant after the start and whose
\* body ended later.
C33_Witness ==
    /\ Len(usageRecords) = 1
    /\ usageRecords[1].Outcome = "success"
    /\ usageRecords[1].bytesRead = 2
    /\ usageRecords[1].FirstTokenLatency = 1
    /\ usageRecords[1].Duration = 2


\* ------------------------------------------------------------------------
\* The error text of a usage record
\* ------------------------------------------------------------------------

\* A text is given by the number of its code points (runes), the only thing
\* shortenErrorMessage looks at.

\* "const maxRunes = 512"
maxRunes == 512

\* shortenErrorMessage(msg): runes[:maxRunes] of a longer text.
shortenErrorMessage(msg) == IF msg <= maxRunes THEN msg ELSE maxRunes

\* extractErrorMessage(body, encoding, status) for a body of the given
\* length after trimming: the body, or http.StatusText(status) for an empty
\* one ("Service Unavailable").
extractErrorMessage(body, status) == IF body > 0 THEN body ELSE 19

\* The endpoint joinURL returns: the base URL, the path and, after "?", the
\* raw query of the client's request.
EndpointLen(base, path, rawQuery) ==
    base + path + (IF rawQuery > 0 THEN 1 + rawQuery ELSE 0)

\* (*url.Error).Error() of httpClient.Do: Op + " \"" + URL + "\": " + cause.
\* Op is "Post", the cause "EOF".
UrlErrorLen(endpoint) == 4 + 2 + endpoint + 3 + 3

\* One failing attempt: the lengths of the provider's id and base URL (from
\* the configuration), of the request's path and raw query (from the client)
\* and of the upstream's error body.
InitErrorField ==
    /\ proxy \in { [pc |-> "attempt", id |-> id, base |-> 20, path |-> 16,
                    rawQuery |-> q, body |-> b] :
                    id \in {2, 40}, q \in {0, 30, 480, 600},
                    b \in {0, 100, 512, 513, 2000} }
    /\ gw = << >>
    /\ req = << >>
    /\ w = NewResponseWriter
    /\ usageRecords = << >>
    /\ uuids = 0
    /\ calls = << >>
    /\ wroteBy = 0
    /\ NoBackground

\* The usage records with the failed attempt's record, error text error.
WithError(path, error) ==
    Append(usageRecords, [Outcome |-> "failure", path |-> path, Error |-> error])

\* "provider %s not found" (Proxy, the candidate names no provider).
UnresolvedProvider ==
    /\ proxy.pc = "attempt"
    /\ usageRecords' = WithError("unresolved", 19 + proxy.id)
    /\ proxy' = [proxy EXCEPT !.pc = "done"]
    /\ UNCHANGED <<background, gw, req, w, uuids, calls, wroteBy>>

\* record.Error = err.Error() after httpClient.Do failed.
TransportError ==
    /\ proxy.pc = "attempt"
    /\ usageRecords' = WithError("transport",
                           UrlErrorLen(EndpointLen(proxy.base, proxy.path, proxy.rawQuery)))
    /\ proxy' = [proxy EXCEPT !.pc = "done"]
    /\ UNCHANGED <<background, gw, req, w, uuids, calls, wroteBy>>

\* record.Error = shortenErrorMessage(extractErrorMessage(respBody, ...))
\* for a status of 400 or above.
StatusError ==
    /\ proxy.pc = "attempt"
    /\ usageRecords' = WithError("status",
                           shortenErrorMessage(extractErrorMessage(proxy.body, 503)))
    /\ proxy' = [proxy EXCEPT !.pc = "done"]
    /\ UNCHANGED <<background, gw, req, w, uuids, calls, wroteBy>>

\* record.Error = err.Error() of the failed copy ("unexpected EOF").
CopyError ==
    /\ proxy.pc = "attempt"
    /\ usageRecords' = WithError("copy", 14)
    /\ proxy' = [proxy EXCEPT !.pc = "done"]
    /\ UNCHANGED <<background, gw, req, w, uuids, calls, wroteBy>>

NextErrorField ==
    \/ UnresolvedProvider
    \/ TransportError
    \/ StatusError
    \/ CopyError

SpecErrorField == InitErrorField /\ [][NextErrorField]_vars

\* C34 as stated: the error text of every usage record handed to
\* persistence has at most 512 code points, whatever the failure.
C34_ErrorFieldBounded ==
    \A i \in 1..Len(usageRecords) : usageRecords[i].Error <= 512

\* ------------------------------------------------------------------------
\* The file store under concurrent callers (internal/storage/storage.go)
\* ------------------------------------------------------------------------

\* newFileStore: no record, no id given out, the usage file as it is on
\* disk, the RWMutex unlocked.
NewFileStore(file) ==
    NewStore("file") @@ [file |-> file, mu |-> [writer |-> 0, readers |-> {}]]

\* Mutant of Lockable: Lock never waits.
lockNeverWaits(mu) == TRUE

\* f.mu.Lock() returns once no goroutine holds the mutex.
Lockable(mu) == mu.writer = 0 /\ mu.readers = {}

\* f.mu.RLock() returns once no writer holds the mutex.
RLockable(mu) == mu.writer = 0

\* Mutant of loadUsageRecords: the id counter is not raised to the ids read.
loadWithoutNextID(st) == [st EXCEPT !.records = st.file]

\* fileStore.loadUsageRecords: every line of the file is decoded, given its
\* defaults and appended; nextID is raised to the largest id read.
loadUsageRecords(st) ==
    LET RECURSIVE scan(_, _)
        scan(i, f) ==
            IF i > Len(st.file) THEN f
            ELSE LET line == st.file[i]
                     record == [line EXCEPT
                                  !.Attempt = IF @ <= 0 THEN 1 ELSE @,
                                  !.Outcome = defaultOutcome(@, line.StatusCode)]
                 IN  scan(i + 1, [f EXCEPT !.records = Append(@, record),
                                           !.nextID = IF record.ID > @ THEN record.ID
                                                                        ELSE @])
    IN  scan(1, st)

\* A goroutine about to call one method of the store.
Caller(op, rec) ==
    [op |-> op, pc |-> "idle", rec |-> rec, n |-> 0, err |-> "",
     removed |-> 0, seen |-> << >>, result |-> << >>,
     before |-> [records |-> << >>, nextID |-> 0]]

\* The records the gateway hands over: made now or two days ago, id 0.
FileInputs(requestID, t) ==
    { InputRecord(requestID, 1, 200, "success", c) : c \in {t, t - 2 * Day} }

\* What the process has seen since it loaded the file: the ids RecordUsage
\* gave out, the records whose RecordUsage returned nil, the record lists
\* as they stood between two writing calls, and the ids the file held when
\* it was loaded.
NewProcess(st, reloads) ==
    [assigned |-> << >>, recorded |-> {}, committed |-> {st.records},
     reloads |-> reloads, loaded |-> { st.file[i].ID : i \in 1..Len(st.file) }]

\* MaxRecords goroutines record, one cleans up, one queries; the usage
\* file is empty when the store is built.
InitFile ==
    /\ store = loadUsageRecords(NewFileStore(<< >>))
    /\ now = StartTime
    /\ \E recs \in [1..MaxRecords -> FileInputs("r1", StartTime) \cup FileInputs("r2", StartTime)] :
        /\ \A i \in 1..MaxRecords : recs[i].RequestID = IF i = 1 THEN "r1" ELSE "r2"
        /\ tasks = [i \in 1..MaxRecords |-> Caller("RecordUsage", recs[i])]
                     \o << Caller("CleanupOldRecords", << >>), Caller("QueryUsage", << >>) >>
    /\ ret = NewProcess(NewFileStore(<< >>), 0)
    /\ gw = << >>
    /\ req = << >>
    /\ proxy = << >>
    /\ w = NewResponseWriter
    /\ usageRecords = << >>
    /\ uuids = 0
    /\ calls = << >>
    /\ wroteBy = 0
    /\ reqCtx = "active"
    /\ cleanup = [pc |-> "off"]

FileFrame ==
    UNCHANGED <<gw, req, proxy, w, usageRecords, uuids, calls, wroteBy, reqCtx, now, cleanup>>

\* "f.mu.Lock()" of RecordUsage and CleanupOldRecords.
FileLock ==
    \E i \in 1..Len(tasks) :
        /\ tasks[i].pc = "idle"
        /\ tasks[i].op \in {"RecordUsage", "CleanupOldRecords"}
        /\ Lockable(store.mu)
        /\ store' = [store EXCEPT !.mu.writer = i]
        /\ tasks' = [tasks EXCEPT ![i].pc = "locked",
                                  ![i].before = [records |-> store.records,
                                                 nextID |-> store.nextID]]
        /\ UNCHANGED ret
        /\ FileFrame

\* "f.mu.RLock()" of QueryUsage.
FileRLock ==
    \E i \in 1..Len(tasks) :
        /\ tasks[i].pc = "idle"
        /\ tasks[i].op = "QueryUsage"
        /\ RLockable(store.mu)
        /\ store' = [store EXCEPT !.mu.readers = @ \cup {i}]
        /\ tasks' = [tasks EXCEPT ![i].pc = "rlocked"]
        /\ UNCHANGED ret
        /\ FileFrame

\* "if record.ID == 0 { f.nextID++ ..." reads f.nextID.
NextIDLoad ==
    \E i \in 1..Len(tasks) :
        /\ tasks[i].pc = "locked"
        /\ tasks[i].op = "RecordUsage"
        /\ tasks' = [tasks EXCEPT ![i].pc = IF tasks[i].rec.ID = 0 THEN "nextID" ELSE "append",
                                  ![i].n = store.nextID]
        /\ UNCHANGED <<store, ret>>
        /\ FileFrame

\* "f.nextID++; record.ID = f.nextID" writes the counter and the id.
NextIDStore ==
    \E i \in 1..Len(tasks) :
        /\ tasks[i].pc = "nextID"
        /\ store' = [store EXCEPT !.nextID = tasks[i].n + 1]
        /\ tasks' = [tasks EXCEPT ![i].pc = "append", ![i].rec.ID = tasks[i].n + 1]
        /\ ret' = [ret EXCEPT !.assigned = Append(@, tasks[i].n + 1)]
        /\ FileFrame

\* "f.records = append(f.records, record)", CreatedAt set when it is zero.
FileAppend ==
    \E i \in 1..Len(tasks) :
        /\ tasks[i].pc = "append"
        /\ LET record == [tasks[i].rec EXCEPT !.CreatedAt = IF IsZero(@) THEN now ELSE @]
           IN  /\ store' = [store EXCEPT !.records = Append(@, record)]
               /\ tasks' = [tasks EXCEPT ![i].pc = "write", ![i].rec = record]
        /\ UNCHANGED ret
        /\ FileFrame

\* The line is appended to the usage file, or os.OpenFile or file.Write
\* fails and RecordUsage returns the error.
FileWrite ==
    \E i \in 1..Len(tasks), fails \in BOOLEAN :
        /\ tasks[i].pc = "write"
        /\ store' = [store EXCEPT !.file = IF fails THEN @ ELSE Append(@, tasks[i].rec)]
        /\ tasks' = [tasks EXCEPT ![i].pc = "return",
                                  ![i].err = IF fails THEN "io error" ELSE ""]
        /\ UNCHANGED ret
        /\ FileFrame

\* CleanupOldRecords(ctx, 1) filters f.records: "f.records = keptRecords".
FileFilter ==
    \E i \in 1..Len(tasks) :
        /\ tasks[i].pc = "locked"
        /\ tasks[i].op = "CleanupOldRecords"
        /\ LET kept == fileCleanupOldRecords(store, 1, now, FALSE)
           IN  /\ store' = kept.store
               /\ tasks' = [tasks EXCEPT ![i].pc = "rewrite", ![i].removed = kept.removed]
        /\ UNCHANGED ret
        /\ FileFrame

\* The usage file is rewritten: os.OpenFile with O_TRUNC fails and the file
\* stays, or the k-th file.Write fails and the file holds the lines before
\* it, or every kept record is written.
FileRewrite ==
    \E i \in 1..Len(tasks) :
        /\ tasks[i].pc = "rewrite"
        /\ \/ /\ UNCHANGED store
              /\ tasks' = [tasks EXCEPT ![i].pc = "return", ![i].err = "io error",
                                        ![i].removed = 0]
           \/ \E k \in 1..Len(store.records) :
                /\ store' = [store EXCEPT !.file = SubSeq(store.records, 1, k - 1)]
                /\ tasks' = [tasks EXCEPT ![i].pc = "return", ![i].err = "io error",
                                          ![i].removed = 0]
           \/ /\ store' = [store EXCEPT !.file = store.records]
              /\ tasks' = [tasks EXCEPT ![i].pc = "return"]
        /\ UNCHANGED ret
        /\ FileFrame

\* "defer f.mu.Unlock()": the writing call returns.
FileUnlock ==
    \E i \in 1..Len(tasks) :
        /\ tasks[i].pc = "return"
        /\ tasks[i].op \in {"RecordUsage", "CleanupOldRecords"}
        /\ store' = [store EXCEPT !.mu.writer = 0]
        /\ tasks' = [tasks EXCEPT ![i].pc = "done"]
        /\ ret' = [ret EXCEPT
                     !.committed = @ \cup {store.records},
                     !.recorded = IF tasks[i].op = "RecordUsage" /\ tasks[i].err = ""
                                  THEN @ \cup {tasks[i].rec} ELSE @]
        /\ FileFrame

\* QueryUsage filters, sorts and cuts the records it finds in f.records.
FileRead ==
    \E i \in 1..Len(tasks), query \in UsageQueries :
        /\ tasks[i].pc = "rlocked"
        /\ \E records \in fileQueryUsage(store, query) :
            tasks' = [tasks EXCEPT ![i].pc = "return", ![i].seen = store.records,
                                   ![i].result = records]
        /\ UNCHANGED <<store, ret>>
        /\ FileFrame

\* "defer f.mu.RUnlock()": QueryUsage returns.
FileRUnlock ==
    \E i \in 1..Len(tasks) :
        /\ tasks[i].pc = "return"
        /\ tasks[i].op = "QueryUsage"
        /\ store' = [store EXCEPT !.mu.readers = @ \ {i}]
        /\ tasks' = [tasks EXCEPT ![i].pc = "done"]
        /\ UNCHANGED ret
        /\ FileFrame

\* The process ends between two calls and a new one loads the usage file.
Reload ==
    /\ ret.reloads = 0
    /\ \A i \in 1..Len(tasks) : tasks[i].pc \in {"idle", "done"}
    /\ store' = loadUsageRecords(NewFileStore(store.file))
    /\ ret' = [NewProcess(store', 1) EXCEPT !.committed = @ \cup ret.committed]
    /\ UNCHANGED tasks
    /\ FileFrame

NextFile ==
    \/ FileLock
    \/ FileRLock
    \/ NextIDLoad
    \/ NextIDStore
    \/ FileAppend
    \/ FileWrite
    \/ FileFilter
    \/ FileRewrite
    \/ FileUnlock
    \/ FileRead
    \/ FileRUnlock
    \/ Reload

SpecFile == InitFile /\ [][NextFile]_vars

\* A record is within the one day of retention of the cleanup.
InRetention(rec) == After(rec.CreatedAt, cutoffTime(now, 1))

RecordsOf(records) == { records[i] : i \in 1..Len(records) }

\* C35: under every interleaving of RecordUsage, QueryUsage and
\* CleanupOldRecords on the file store, a writing call is alone inside the
\* mutex and a query shares it only with queries; no record whose
\* RecordUsage returned nil and that is within retention is missing from
\* the record list, no two records of the list have the same id, and the
\* list a query reads is one that stood between two writing calls.
C35_FileStoreConcurrency ==
    /\ \A i \in 1..Len(tasks) :
        /\ tasks[i].pc \in {"locked", "nextID", "append", "write", "rewrite"}
             => store.mu.writer = i /\ store.mu.readers = {}
        /\ tasks[i].pc = "rlocked" => i \in store.mu.readers /\ store.mu.writer = 0
        /\ tasks[i].op = "QueryUsage" /\ tasks[i].pc \in {"return", "done"}
             => tasks[i].seen \in ret.committed
    /\ \A i, j \in 1..Len(store.records) :
        i # j => store.records[i].ID # store.records[j].ID
    /\ \A rec \in ret.recorded : InRetention(rec) => rec \in RecordsOf(store.records)

\* Two records were recorded, one of them old, the cleanup has dropped the
\* old one and the query has read the list in between.
C35_Witness ==
    /\ \A i \in 1..Len(tasks) : tasks[i].pc = "done"
    /\ Cardinality(ret.recorded) = 2
    /\ Len(store.records) = 1
    /\ \E i \in 1..Len(tasks) : tasks[i].op = "QueryUsage" /\ Len(tasks[i].seen) = 2

\* C38: a RecordUsage or CleanupOldRecords of the file store that returns
\* an error has left f.records and f.nextID as they were when it took the
\* mutex, and between calls f.records equals the records in the usage file.
C38_ErrorLeavesStoreUnchanged ==
    /\ \A i \in 1..Len(tasks) :
        tasks[i].pc = "return" /\ tasks[i].op # "QueryUsage" /\ tasks[i].err # ""
            => /\ store.records = tasks[i].before.records
               /\ store.nextID = tasks[i].before.nextID
    /\ (\A i \in 1..Len(tasks) : tasks[i].pc \in {"idle", "done"})
            => store.records = store.file

\* C39: the ids the file store gives to records passed with id 0 grow
\* strictly from one RecordUsage to the next within a process; once the
\* usage file has been loaded, every id given out is larger than every id
\* the file held, and no id in the file is above the id counter.
C39_FileIDs ==
    /\ \A i, j \in 1..Len(ret.assigned) : i < j => ret.assigned[i] < ret.assigned[j]
    /\ \A k \in 1..Len(ret.assigned) : \A id \in ret.loaded : ret.assigned[k] > id
    /\ \A i \in 1..Len(store.file) : store.file[i].ID <= store.nextID

\* A record was written, the process restarted and loaded it, and the next
\* RecordUsage has given out an id.
C39_Witness ==
    /\ ret.reloads = 1
    /\ ret.loaded # {}
    /\ Len(ret.assigned) = 1
    /\ \E i \in 1..Len(tasks) : tasks[i].pc = "done" /\ tasks[i].op = "RecordUsage"
                                  /\ tasks[i].rec.ID = ret.assigned[1]

\* ------------------------------------------------------------------------
\* What Proxy writes after an attempt has written the upstream status
\* ------------------------------------------------------------------------

\* C36: once an attempt has written the upstream status, Proxy writes no
\* other status and no error page: when Proxy has returned, the client
\* holds that status and nothing but chunks of that upstream body.
C36_StatusWrittenOnce ==
    proxy.pc = "done" /\ wroteBy >= 1
        => /\ w.status = proxy.resp[1].StatusCode
           /\ w.body \in Prefixes(proxy.resp[1].Body)

\* ------------------------------------------------------------------------
\* The body each candidate is sent
\* ------------------------------------------------------------------------

\* Candidate lists whose entries carry no outbound model, "tm" or "tn".
BodyCandidates ==
    { [ID |-> "pA", Model |-> ""], [ID |-> "pB", Model |-> "tm"],
      [ID |-> "pA", Model |-> "tn"] }

\* Gateways routing "gpt" to one or two of these candidates, and requests
\* naming "gpt".
InitBody ==
    /\ gw \in { New(MakeConfig(<< [Name |-> "gpt", Providers |-> ps, Rules |-> << >>] >>,
                                "", FALSE), FALSE) :
                  ps \in SeqsUpTo(BodyCandidates, MaxCandidates) \ {<< >>} }
    /\ req \in { r \in Requests : ~r.bodyErr /\ r.XRequestID = << >>
                                   /\ r.body.valid /\ r.body.model = "gpt" }
    /\ proxy = NewProxy
    /\ w = NewResponseWriter
    /\ usageRecords = << >>
    /\ uuids = 0
    /\ calls = << >>
    /\ wroteBy = 0
    /\ NoBackground

SpecBody == InitBody /\ [][Next]_vars

\* C37: the body sent to a candidate is the original body when the
\* candidate has no outbound model, and otherwise the original body with
\* only its model replaced by the candidate's (its other fields as one
\* decoding and encoding leaves them), whatever was sent to the candidates
\* before; the body Proxy holds stays the request's body.
C37_BodyFromOriginal ==
    /\ proxy.pc # "start" => proxy.bodyBytes = req.body
    /\ \A k \in 1..Len(calls) :
          LET candidate == proxy.candidates[calls[k].attempt]
          IN  IF candidate.model \in {"", req.body.model}
              THEN calls[k].body = req.body
              ELSE /\ calls[k].body.model = candidate.model
                   /\ calls[k].body.stream = req.body.stream
                   /\ calls[k].body.tokens = req.body.tokens
                   /\ calls[k].body.seed = Float64RoundTrip(req.body.seed)

\* The first candidate was sent the body with model "tm", failed, and the
\* second, without outbound model, was sent the original body with a
\* number no float64 holds.
C37_Witness ==
    /\ Len(calls) = 2
    /\ calls[1].body.model = "tm"
    /\ calls[2].body = req.body
    /\ req.body.seed = "9007199254740993"
    /\ proxy.pc = "done"

\* ------------------------------------------------------------------------
\* Termination of Proxy
\* ------------------------------------------------------------------------

\* Proxy runs on: its own steps are sequential code, and every
\* httpClient.Do and every copy of a response body returns.
SpecTerminates == Init /\ [][Next]_vars /\ WF_vars(Next)

\* The attempts made so far: at most one per candidate and in the order of
\* the candidates in the loop, one and no more on the default-provider path.
AttemptsBounded ==
    /\ \A k \in 1..Len(calls) : calls[k].attempt \in 1..proxy.attempt
    /\ \A j, k \in 1..Len(calls) : j < k => calls[j].attempt < calls[k].attempt
    /\ proxy.viaDefault =>
          /\ proxy.attempt = 1 /\ proxy.candidates = << >> /\ Len(calls) <= 1
          /\ proxy.pc = "done" /\ UrlParses(gw.defaultProvider[1].BaseURL)
                => Len(calls) = 1
    /\ ~proxy.viaDefault =>
          /\ proxy.attempt <= Len(proxy.candidates)
          /\ Len(calls) <= Len(proxy.candidates)
          /\ proxy.pc \in {"loop", "dispatch", "copy"} => proxy.attempt >= 1

\* C40: Proxy returns for every request when every upstream call returns;
\* until then it makes at most one attempt per candidate, in the order of
\* the candidates and never one candidate twice, and exactly one attempt
\* on the default-provider path.
C40_ProxyTerminates == []AttemptsBounded /\ <>(proxy.pc = "done")

\* Both candidates were tried, first the first and then the second, and
\* Proxy has returned.
C40_Witness ==
    /\ proxy.pc = "done"
    /\ Len(proxy.candidates) = 2
    /\ Len(calls) = 2
    /\ calls[1].attempt = 1 /\ calls[2].attempt = 2

====
